---- MODULE Spec2Model ----
(***************************************************************************)
(* SADUC (Samba Active Directory Users and Computers): the directory       *)
(* data-access layer (samba_backend.py), the lazy-loading tree model       *)
(* (ad_tree_model.py), the list model's kind derivation (ad_list_model.py) *)
(* and the start-up authentication flow (main.py).                         *)
(*                                                                         *)
(* Three specifications share the module:                                  *)
(*   Spec         the interactive session: the ADTreeModel driven by the   *)
(*                view (hasChildren / canFetchMore / fetchMore) and by the *)
(*                "advanced features" toggle, against a stub directory     *)
(*                whose queries may fail;                                  *)
(*   SpecStartup  main() / get_authenticated_connection() / get_ldap_conn();*)
(*   SpecBackend  the backend functions called directly on bounded inputs. *)
(*                                                                         *)
(* Conventions.  A Python dict is a TLA+ record (a function on strings);   *)
(* d.get(k) of a list-valued attribute is GetAttr(d, k), which yields <<>> *)
(* for a missing key: the code only ever tests such a value for truth, and *)
(* None and [] are both false.  Attribute values are the text the bytes    *)
(* decode to (all values used are ASCII); where the code lower-cases or    *)
(* parses a value, the model does so with Lower and ParseInt.              *)
(***************************************************************************)
EXTENDS Integers, Sequences, FiniteSets, TLC

VARIABLES
    \* ---- the interactive session (ad_tree_model.py) ----
    items,          \* the ADTreeItem objects of the current model, by identity (index)
    advanced_view,  \* ADTreeModel.advanced_view
    fetchQueries,   \* fetchQueries[i]: get_expandable_children calls issued by fetchMore for item i
    probeQueries,   \* one-level searches issued by ADTreeModel.hasChildren's backend fallback
    resets,         \* number of model resets so far (set_advanced_view)
    treeRet,        \* the last view call and what it returned
    \* ---- start-up (main.py, samba_backend.get_ldap_conn) ----
    pc,             \* position of main()
    ticket,         \* klist -s would succeed
    lastConn,       \* the last get_ldap_conn call: its inputs, what it contacted, what it returned
    connCalls,      \* number of get_ldap_conn calls so far
    prompts,        \* number of UsernamePasswordDialog prompts so far
    kinitCalls,     \* number of kinit invocations so far
    lastKinit,      \* how the last kinit invocation ended
    auth_dialog,    \* the last UsernamePasswordDialog: its result, the credentials read, the box shown
    fatalErrors,    \* number of fatal "Application Error" boxes shown by main()
    \* ---- direct backend calls ----
    bk,             \* the last backend function call: its inputs and its result
    \* ---- the list pane (gui.py, ad_list_model.py) ----
    _data,              \* ADListModel._data: the rows of the list pane
    currentContainerDN, \* SADUCMainWindow.currentContainerDN
    listOp,             \* the last list-pane operation and what its query returned
    current_selected_dn, \* SADUCMainWindow.current_selected_dn
    \* ---- the mutation entry points (gui.py, computer_properties.py) ----
    directory,      \* the remote directory, as far as a write could change it
    shown,          \* what the computer properties dialog displays
    uiOp,           \* the last mutation entry point run and what it reported
    \* ---- the user properties dialog (user_properties.py) ----
    user_dn,            \* UserPropertiesDialog.user_dn, "None" while no dialog is open
    member_of_table     \* the rows of the dialog's Member Of table

treeVars == <<items, advanced_view, fetchQueries, probeQueries, resets, treeRet>>
startVars == <<pc, ticket, lastConn, connCalls, prompts, kinitCalls, lastKinit, auth_dialog, fatalErrors>>
vars == <<items, advanced_view, fetchQueries, probeQueries, resets, treeRet,
          pc, ticket, lastConn, connCalls, prompts, kinitCalls, lastKinit, auth_dialog, fatalErrors, bk,
          _data, currentContainerDN, listOp, current_selected_dn,
          directory, shown, uiOp, user_dn, member_of_table>>
listVars == <<_data, currentContainerDN, listOp, current_selected_dn>>
actVars == <<directory, shown, uiOp>>
dlgVars == <<user_dn, member_of_table>>

----------------------------------------------------------------------------
(* Bounds of the model *)

\* Entries the stub server puts on one result page (at most PAGE_SIZE).
StubPageSize == 2
\* Model resets (advanced-view toggles) explored in one session.
MaxResets == 1
\* get_ldap_conn calls explored in one start-up.
MaxConnCalls == 3
\* SRV records in one DNS answer.
MaxServers == 3
\* Pages of a stub search answered to a direct get_paged_results call.
MaxPages == 3

----------------------------------------------------------------------------
(* Sequence helpers *)

Range(s) == {s[i] : i \in DOMAIN s}

RECURSIVE Flatten(_)
Flatten(ss) == IF ss = <<>> THEN <<>> ELSE Head(ss) \o Flatten(Tail(ss))

Min(a, b) == IF a <= b THEN a ELSE b

\* The pages a server cuts a result list into, n entries a page.
RECURSIVE Paginate(_, _)
Paginate(s, n) ==
    IF Len(s) <= n THEN (IF s = <<>> THEN <<>> ELSE <<s>>)
    ELSE <<SubSeq(s, 1, n)>> \o Paginate(SubSeq(s, n + 1, Len(s)), n)

\* dict.get(key) for a list-valued attribute, None rendered as the empty list.
GetAttr(d, k) == IF k \in DOMAIN d THEN d[k] ELSE <<>>

\* str.lower() on the values the model uses.
Lower(s) ==
    CASE s = "TRUE" -> "true"
      [] s = "True" -> "true"
      [] s = "FALSE" -> "false"
      [] s = "CN=Users,DC=home,DC=lucasit,DC=com" -> "cn=users,dc=home,dc=lucasit,dc=com"
      [] s = "CN=USERS,DC=HOME,DC=LUCASIT,DC=COM" -> "cn=users,dc=home,dc=lucasit,dc=com"
      [] s = "CN=Builtin,DC=home,DC=lucasit,DC=com" -> "cn=builtin,dc=home,dc=lucasit,dc=com"
      [] s = "CN=Computers,DC=home,DC=lucasit,DC=com" -> "cn=computers,dc=home,dc=lucasit,dc=com"
      [] s = "CN=ForeignSecurityPrincipals,DC=home,DC=lucasit,DC=com"
             -> "cn=foreignsecurityprincipals,dc=home,dc=lucasit,dc=com"
      [] s = "DC=home,DC=lucasit,DC=com" -> "dc=home,dc=lucasit,dc=com"
      [] s = "OU=Sales,DC=home,DC=lucasit,DC=com" -> "ou=sales,dc=home,dc=lucasit,dc=com"
      [] s = "OU=East,OU=Sales,DC=home,DC=lucasit,DC=com" -> "ou=east,ou=sales,dc=home,dc=lucasit,dc=com"
      [] s = "OU=Lab,DC=home,DC=lucasit,DC=com" -> "ou=lab,dc=home,dc=lucasit,dc=com"
      [] s = "CN=System,DC=home,DC=lucasit,DC=com" -> "cn=system,dc=home,dc=lucasit,dc=com"
      [] s = "CN=Policies,CN=System,DC=home,DC=lucasit,DC=com"
             -> "cn=policies,cn=system,dc=home,dc=lucasit,dc=com"
      [] s = "Users" -> "users"
      [] s = "Sales" -> "sales"
      [] s = "System" -> "system"
      [] s = "Lab" -> "lab"
      [] s = "East" -> "east"
      [] s = "Policies" -> "policies"
      [] s = "Alice A" -> "alice a"
      [] s = "Zed" -> "zed"
      [] s = "AMY" -> "amy"
      [] s = "Default container" -> "default container"
      [] s = "Team lead" -> "team lead"
      [] s = "Unknown" -> "unknown"
      [] s = "Group Policy Object" -> "group policy object"
      [] s = "Security Group" -> "security group"
      [] s = "Computer" -> "computer"
      [] s = "Disabled User" -> "disabled user"
      [] s = "User" -> "user"
      [] s = "Organizational Unit" -> "organizational unit"
      [] s = "Container" -> "container"
      [] OTHER -> s

----------------------------------------------------------------------------
(* samba_backend.py: configuration *)

PAGE_SIZE == 1000

TREE_BRANCH_CLASSES ==
    {"organizationalUnit", "container", "builtinDomain", "domainDns", "dnsZone",
     "msDS-PasswordSettingsContainer", "fileLinkTracking", "linkTrackObjectMoveTable",
     "linkTrackVolumeTable", "msDFSR-GlobalSettings", "msDFSR-ReplicationGroup",
     "msDFSR-Topology", "msDFSR-Content", "groupPolicyContainer", "nTFRSSettings",
     "dfsConfiguration", "classStore", "domainPolicy"}

NON_EXPANDABLE_CONTAINERS ==
    {"cn=users,dc=home,dc=lucasit,dc=com",
     "cn=computers,dc=home,dc=lucasit,dc=com",
     "cn=builtin,dc=home,dc=lucasit,dc=com",
     "cn=foreignsecurityprincipals,dc=home,dc=lucasit,dc=com"}

----------------------------------------------------------------------------
(* The stub directory: a fixed tree of entries.  An LDAP result is a pair   *)
(* <<dn, entry>>; entry.isdict is FALSE for a search reference, whose       *)
(* second component python-ldap delivers as a list of URLs, not a dict.     *)

RootDN == "DC=home,DC=lucasit,DC=com"
UsersDN == "CN=Users,DC=home,DC=lucasit,DC=com"
SalesDN == "OU=Sales,DC=home,DC=lucasit,DC=com"
EastDN == "OU=East,OU=Sales,DC=home,DC=lucasit,DC=com"
SystemDN == "CN=System,DC=home,DC=lucasit,DC=com"
PoliciesDN == "CN=Policies,CN=System,DC=home,DC=lucasit,DC=com"
LabDN == "OU=Lab,DC=home,DC=lucasit,DC=com"
VaultDN == "OU=Vault,OU=Lab,DC=home,DC=lucasit,DC=com"
BobDN == "CN=bob,CN=Users,DC=home,DC=lucasit,DC=com"
KrbtgtDN == "CN=krbtgt,CN=Users,DC=home,DC=lucasit,DC=com"
AliceDN == "CN=alice,OU=Sales,DC=home,DC=lucasit,DC=com"
ZedDN == "CN=zed,OU=East,OU=Sales,DC=home,DC=lucasit,DC=com"
AmyDN == "CN=amy,OU=East,OU=Sales,DC=home,DC=lucasit,DC=com"
Amy2DN == "CN=amy2,OU=East,OU=Sales,DC=home,DC=lucasit,DC=com"
\* A DN that names no entry: searching under it raises NO_SUCH_OBJECT.
GoneDN == "OU=Gone,DC=home,DC=lucasit,DC=com"
\* UsersDN as a client may spell it.
UsersDNUpper == "CN=USERS,DC=HOME,DC=LUCASIT,DC=COM"

Dict(attrs) == [isdict |-> TRUE, attrs |-> attrs]
Referral == [isdict |-> FALSE, attrs |-> [url |-> <<"ldap://ForestDnsZones.home.lucasit.com">>]]

\* The immediate children of dn, in the order the server returns them, with
\* every attribute they carry.
StubChildren(dn) ==
    CASE dn \in {RootDN} ->
           << <<UsersDN, Dict([objectClass |-> <<"top", "container">>, cn |-> <<"Users">>,
                               description |-> <<"Default container">>])>>,
              <<SalesDN, Dict([objectClass |-> <<"top", "organizationalUnit">>, ou |-> <<"Sales">>])>>,
              <<"None", Referral>>,
              <<SystemDN, Dict([objectClass |-> <<"top", "container">>, cn |-> <<"System">>,
                                showInAdvancedViewOnly |-> <<"TRUE">>])>>,
              <<LabDN, Dict([objectClass |-> <<"top", "organizationalUnit">>, ou |-> <<"Lab">>])>> >>
      [] dn \in {UsersDN, UsersDNUpper} ->
           << <<BobDN, Dict([objectClass |-> <<"top", "person", "organizationalPerson", "user">>,
                             cn |-> <<"bob">>, userAccountControl |-> << <<5, 1, 2>> >>])>>,
              <<KrbtgtDN, Dict([objectClass |-> <<"top", "person", "organizationalPerson", "user">>,
                                cn |-> <<"krbtgt">>, userAccountControl |-> << <<5, 1, 4>> >>])>> >>
      [] dn = SalesDN ->
           << <<EastDN, Dict([objectClass |-> <<"top", "organizationalUnit">>, ou |-> <<"East">>])>>,
              <<AliceDN, Dict([objectClass |-> <<"top", "person", "organizationalPerson", "user">>,
                               cn |-> <<"alice">>, displayName |-> <<"Alice A">>])>> >>
      [] dn = SystemDN ->
           << <<PoliciesDN, Dict([objectClass |-> <<"top", "container">>, cn |-> <<"Policies">>,
                                  showInAdvancedViewOnly |-> <<"TRUE">>])>> >>
      [] dn = EastDN ->
           << <<ZedDN, Dict([objectClass |-> <<"top", "person", "organizationalPerson", "user">>,
                             cn |-> <<"zed">>, displayName |-> <<"Zed">>,
                             description |-> <<"Team lead">>,
                             userAccountControl |-> << <<5, 1, 2>> >>])>>,
              <<AmyDN, Dict([objectClass |-> <<"top", "person", "organizationalPerson", "user">>,
                             cn |-> <<"amy">>, displayName |-> <<"amy">>,
                             userAccountControl |-> << <<5, 1, 4>> >>])>>,
              <<Amy2DN, Dict([objectClass |-> <<"top", "person", "organizationalPerson", "user">>,
                              cn |-> <<"amy2">>, displayName |-> <<"AMY">>])>> >>
      \* An organizational unit whose naming attributes the server does not disclose.
      [] dn = LabDN ->
           << <<VaultDN, Dict([objectClass |-> <<"top", "organizationalUnit">>])>> >>
      [] OTHER -> <<>>

StubExists(dn) == dn # GoneDN

\* The attribute projection of a search: only the requested attributes come back.
Project(entry, attributes) ==
    IF entry.isdict
    THEN [entry EXCEPT !.attrs = [k \in (DOMAIN entry.attrs) \cap attributes |-> entry.attrs[k]]]
    ELSE entry

StubSearch(dn, attributes) ==
    [i \in DOMAIN StubChildren(dn) |->
        <<StubChildren(dn)[i][1], Project(StubChildren(dn)[i][2], attributes)>>]

(* A paged-search server: the pages it will answer with, the request that    *)
(* fails with an LDAPError (0: none), and whether its last response carries  *)
(* no paging control instead of an empty cookie.  A cookie is the number of  *)
(* the page last delivered; the empty cookie is 0.                           *)
Server(pages, failAt, dropCtrl) == [pages |-> pages, failAt |-> failAt, dropCtrl |-> dropCtrl]

ServerResponse(srv, cookie) ==
    LET idx == cookie + 1
    IN [rdata |-> IF idx <= Len(srv.pages) THEN srv.pages[idx] ELSE <<>>,
        cookie |-> IF idx < Len(srv.pages) THEN idx ELSE 0,
        hasCtrl |-> ~(srv.dropCtrl /\ idx >= Len(srv.pages))]

\* The server a one-level search under dn talks to: NO_SUCH_OBJECT on the first
\* request when dn names nothing, else the fault's failing request, if any.
StubServer(dn, attributes, failPage) ==
    Server(Paginate(StubSearch(dn, attributes), Min(StubPageSize, PAGE_SIZE)),
           IF StubExists(dn) THEN failPage ELSE 1, FALSE)

----------------------------------------------------------------------------
(* samba_backend.get_paged_results *)

\* Mutant: the page replaces the accumulated results instead of extending them.
Extend_Overwrites(all_results, rdata) == rdata

\* all_results.extend(rdata)
Extend(all_results, rdata) == all_results \o rdata

\* Mutant: the accumulated pages are discarded when a request fails.
OnPagedError_Discards(all_results) == <<>>

\* except ldap.LDAPError: ... return all_results
OnPagedError(all_results) == all_results

\* The while loop: one iteration sends the request carrying `cookie`.
\* sent: the cookies of the requests sent so far; errors: "Paged search error" logs.
RECURSIVE PagedLoop(_, _, _, _)
PagedLoop(srv, cookie, all_results, sent) ==
    IF srv.failAt = Len(sent) + 1
    THEN [results |-> OnPagedError(all_results), sent |-> Append(sent, cookie), errors |-> 1]
    ELSE LET resp == ServerResponse(srv, cookie)
             acc == Extend(all_results, resp.rdata)
         IN IF ~resp.hasCtrl \/ resp.cookie = 0
            THEN [results |-> acc, sent |-> Append(sent, cookie), errors |-> 0]
            ELSE PagedLoop(srv, resp.cookie, acc, Append(sent, cookie))

\* Mutant: the first page is requested a second time.
get_paged_results_RepeatsFirst(srv) == PagedLoop(srv, 0, <<>>, <<0>>)

get_paged_results(srv) == PagedLoop(srv, 0, <<>>, <<>>)

----------------------------------------------------------------------------
(* samba_backend._is_tree_branch *)

\* Mutant: the hidden flag is applied in advanced mode too.
HiddenInNormalView_AnyView(entry, adv) ==
    /\ GetAttr(entry.attrs, "showInAdvancedViewOnly") # <<>>
    /\ Lower(GetAttr(entry.attrs, "showInAdvancedViewOnly")[1]) = "true"

\* The hidden-unless-advanced test of lines 153-156.
HiddenInNormalView(entry, adv) ==
    /\ ~adv
    /\ GetAttr(entry.attrs, "showInAdvancedViewOnly") # <<>>
    /\ Lower(GetAttr(entry.attrs, "showInAdvancedViewOnly")[1]) = "true"

_is_tree_branch(entry, adv) ==
    IF ~entry.isdict \/ GetAttr(entry.attrs, "objectClass") = <<>> THEN FALSE
    ELSE IF HiddenInNormalView(entry, adv) THEN FALSE
    ELSE (Range(entry.attrs.objectClass) \cap TREE_BRANCH_CLASSES) # {}

----------------------------------------------------------------------------
(* samba_backend.has_expandable_children / get_expandable_children.          *)
(* Each returns its Python result together with the number of LDAP requests  *)
(* it issued (queries; for get_expandable_children also searches, the paged  *)
(* requests of its own one-level search, and probed, the children it asked   *)
(* has_expandable_children about).  `failed` / `fault` say which of its      *)
(* requests the directory fails.                                             *)

TreeAttrs == {"cn", "ou", "dc", "distinguishedName", "objectClass", "showInAdvancedViewOnly"}
ProbeAttrs == {"cn", "ou", "dc", "objectClass", "showInAdvancedViewOnly"}

\* Mutant: the DN is compared without lower-casing it.
IsNonExpandable_CaseSensitive(dn, adv) ==
    ~adv /\ dn \in NON_EXPANDABLE_CONTAINERS

\* The short-circuit of line 227.
IsNonExpandable(dn, adv) ==
    ~adv /\ Lower(dn) \in NON_EXPANDABLE_CONTAINERS

\* Mutant: the handler lets the LDAPError through.
LogAndReturn_Propagates(ret, queries) ==
    [ret |-> "LDAPError", queries |-> queries, errors |-> 0, raised |-> TRUE]

\* except ldap.LDAPError as e: logger.error(...); return <ret>
LogAndReturn(ret, queries) ==
    [ret |-> ret, queries |-> queries, errors |-> 1, raised |-> FALSE]

\* A return that logs no error.
Return(ret, queries) ==
    [ret |-> ret, queries |-> queries, errors |-> 0, raised |-> FALSE]

has_expandable_children(dn, adv, failed) ==
    IF IsNonExpandable(dn, adv) THEN Return(FALSE, 0)
    \* except ldap.NO_SUCH_OBJECT: return False
    ELSE IF ~StubExists(dn) THEN Return(FALSE, 1)
    ELSE IF failed THEN LogAndReturn(FALSE, 1)
    ELSE Return(\E i \in DOMAIN StubSearch(dn, ProbeAttrs) :
                    _is_tree_branch(StubSearch(dn, ProbeAttrs)[i][2], adv), 1)

\* name_attr = entry.get('ou') or entry.get('dc') or entry.get('cn')
TreeNameAttr(attrs) ==
    IF GetAttr(attrs, "ou") # <<>> THEN attrs.ou
    ELSE IF GetAttr(attrs, "dc") # <<>> THEN attrs.dc
    ELSE GetAttr(attrs, "cn")

\* Mutant: every named entry is probed and listed, branch or not.
IsListedChild_AnyNamed(entry, adv) ==
    /\ entry.isdict
    /\ TreeNameAttr(entry.attrs) # <<>>

\* Does the loop body of lines 195-211 append a child for this result?
IsListedChild(entry, adv) ==
    /\ entry.isdict
    /\ _is_tree_branch(entry, adv)
    /\ TreeNameAttr(entry.attrs) # <<>>

\* fault = [failPage |-> the paged request that fails (0: none),
\*          failProbes |-> the DNs whose has-children probe fails]
RECURSIVE ChildLoop(_, _, _, _)
ChildLoop(res, adv, fault, out) ==
    IF res = <<>> THEN out
    ELSE LET child_dn == Head(res)[1]
             entry == Head(res)[2]
         IN IF IsListedChild(entry, adv)
            THEN LET probe == has_expandable_children(child_dn, adv,
                                                      child_dn \in fault.failProbes)
                 IN ChildLoop(Tail(res), adv, fault,
                      [out EXCEPT
                         !.children = Append(@,
                                      [name |-> TreeNameAttr(entry.attrs)[1],
                                       dn |-> child_dn,
                                       objectClass |-> GetAttr(entry.attrs, "objectClass"),
                                       has_sub_containers |-> probe.ret]),
                         !.probed = Append(@, child_dn),
                         !.queries = @ + probe.queries,
                         !.errors = @ + probe.errors])
            ELSE ChildLoop(Tail(res), adv, fault, out)

get_expandable_children(dn, adv, fault) ==
    LET paged == get_paged_results(StubServer(dn, TreeAttrs, fault.failPage))
    IN ChildLoop(paged.results, adv, fault,
                 [children |-> <<>>, probed |-> <<>>, searches |-> Len(paged.sent),
                  queries |-> Len(paged.sent), errors |-> paged.errors, raised |-> FALSE])


----------------------------------------------------------------------------
(* samba_backend.get_all_objects_in_dn *)

ListAttrs ==
    {"cn", "ou", "dc", "displayName", "description", "distinguishedName", "objectClass",
     "sAMAccountName", "userAccountControl"}

\* name_attr = entry.get('displayName') or entry.get('ou') or entry.get('dc') or entry.get('cn')
ListNameAttr(attrs) ==
    IF GetAttr(attrs, "displayName") # <<>> THEN attrs.displayName
    ELSE IF GetAttr(attrs, "ou") # <<>> THEN attrs.ou
    ELSE IF GetAttr(attrs, "dc") # <<>> THEN attrs.dc
    ELSE GetAttr(attrs, "cn")

\* obj_data of lines 265-274: description and userAccountControl only when
\* the entry carries them.
ObjData(child_dn, attrs) ==
    [name |-> ListNameAttr(attrs)[1], dn |-> child_dn,
     objectClass |-> GetAttr(attrs, "objectClass")]
    @@ (IF "description" \in DOMAIN attrs
        THEN "description" :> attrs.description[1] ELSE [k \in {} |-> <<>>])
    @@ (IF "userAccountControl" \in DOMAIN attrs
        THEN "userAccountControl" :> attrs.userAccountControl[1] ELSE [k \in {} |-> <<>>])

\* Mutant: a new row is put in front of the rows collected so far.
AppendObject_Prepends(objects, obj_data) == <<obj_data>> \o objects

\* objects.append(obj_data)
AppendObject(objects, obj_data) == Append(objects, obj_data)

\* The loop of lines 260-275 over the results still to visit.
RECURSIVE ObjectLoop(_, _)
ObjectLoop(res, objects) ==
    IF res = <<>> THEN objects
    ELSE LET child_dn == Head(res)[1]
             entry == Head(res)[2]
         IN IF entry.isdict /\ ListNameAttr(entry.attrs) # <<>>
            THEN ObjectLoop(Tail(res), AppendObject(objects, ObjData(child_dn, entry.attrs)))
            ELSE ObjectLoop(Tail(res), objects)

\* Mutant: a failed request anywhere discards the rows already received.
get_all_objects_in_dn_FailFast(dn, failPage) ==
    LET paged == get_paged_results(StubServer(dn, ListAttrs, failPage))
    IN [objects |-> IF paged.errors > 0 THEN <<>> ELSE ObjectLoop(paged.results, <<>>),
        queries |-> Len(paged.sent), errors |-> paged.errors, raised |-> FALSE]

\* failPage: the paged request the directory fails (0: none).  The LDAPError
\* is caught inside get_paged_results, so the handlers of lines 279-284 see
\* none and the rows of the pages already received are returned.
get_all_objects_in_dn(dn, failPage) ==
    LET paged == get_paged_results(StubServer(dn, ListAttrs, failPage))
    IN [objects |-> ObjectLoop(paged.results, <<>>),
        queries |-> Len(paged.sent), errors |-> paged.errors, raised |-> FALSE]

----------------------------------------------------------------------------
(* samba_backend.get_user_properties / get_computer_properties /            *)
(* get_group_properties and find_objects                                     *)

\* The containers of the stub directory.
StubContainers == {RootDN, UsersDN, SalesDN, EastDN, SystemDN, LabDN}

\* The entry stored under a DN, as <<entry>>, or <<>> when there is none.
StubEntry(dn) ==
    LET hits == {c \in StubContainers :
                    \E i \in DOMAIN StubChildren(c) : StubChildren(c)[i][1] = dn}
    IN IF hits = {} THEN <<>>
       ELSE LET c == CHOOSE c \in hits : TRUE
                i == CHOOSE i \in DOMAIN StubChildren(c) : StubChildren(c)[i][1] = dn
            IN <<StubChildren(c)[i][2]>>

\* The answer to search_s(dn, SCOPE_BASE, '(objectClass=<class>)', ...).
StubBaseSearch(dn, class) ==
    IF StubEntry(dn) # <<>> /\ StubEntry(dn)[1].isdict
       /\ class \in Range(GetAttr(StubEntry(dn)[1].attrs, "objectClass"))
    THEN << <<dn, StubEntry(dn)[1]>> >>
    ELSE <<>>

\* get_user_properties (class "user"), get_computer_properties ("computer"),
\* get_group_properties ("group"): None is <<>>, a dict is <<properties>>.
get_properties(class, dn, failed) ==
    IF StubEntry(dn) = <<>> \/ failed THEN LogAndReturn(<<>>, 1)
    ELSE IF StubBaseSearch(dn, class) = <<>> THEN Return(<<>>, 1)
    ELSE Return(<<StubBaseSearch(dn, class)[1][2].attrs>>, 1)

\* The entries below dn, the nearest first, to the given depth.
RECURSIVE StubSubtree(_, _)
StubSubtree(dn, depth) ==
    IF depth = 0 THEN <<>>
    ELSE StubChildren(dn)
         \o Flatten([i \in DOMAIN StubChildren(dn) |->
                        StubSubtree(StubChildren(dn)[i][1], depth - 1)])

\* object_class_filter of lines 642-650: the classes it admits, {} when the
\* type is not supported.
ObjectClassFilter(object_type) ==
    CASE object_type = "Users, Contacts, and Groups" -> {"user", "contact", "group"}
      [] object_type = "Computers" -> {"computer"}
      [] object_type = "Organizational Units" -> {"organizationalUnit"}
      [] OTHER -> {}

\* Does the server match the entry against (|(cn=*name*)(name=*name*))?
MatchesName(attrs, name) ==
    \/ name = ""
    \/ name = "am" /\ GetAttr(attrs, "cn") \in {<<"amy">>, <<"amy2">>}

\* (description=*description*)
MatchesDescription(attrs, description) ==
    \/ description = ""
    \/ description = "lead" /\ GetAttr(attrs, "description") = <<"Team lead">>

FindAttrs == {"cn", "ou", "dc", "displayName", "description", "distinguishedName", "objectClass"}

\* The server's answer to the subtree search: search references come back
\* whatever the filter says.
StubFind(search_base, classes, name, description) ==
    LET all == StubSubtree(search_base, 3)
        Hit(r) == \/ ~r[2].isdict
                  \/ /\ Range(GetAttr(r[2].attrs, "objectClass")) \cap classes # {}
                     /\ MatchesName(r[2].attrs, name)
                     /\ MatchesDescription(r[2].attrs, description)
        hits == SelectSeq(all, Hit)
    IN [i \in DOMAIN hits |-> <<hits[i][1], Project(hits[i][2], FindAttrs)>>]

\* name_attr = entry.get('displayName') or entry.get('cn')
FindNameAttr(attrs) ==
    IF GetAttr(attrs, "displayName") # <<>> THEN attrs.displayName ELSE GetAttr(attrs, "cn")

RECURSIVE FindLoop(_, _)
FindLoop(res, objects) ==
    IF res = <<>> THEN objects
    ELSE LET child_dn == Head(res)[1]
             entry == Head(res)[2]
         IN IF entry.isdict /\ FindNameAttr(entry.attrs) # <<>>
            THEN FindLoop(Tail(res),
                   Append(objects,
                     [name |-> FindNameAttr(entry.attrs)[1], dn |-> child_dn,
                      objectClass |-> GetAttr(entry.attrs, "objectClass")]
                     @@ (IF "description" \in DOMAIN entry.attrs
                         THEN "description" :> entry.attrs.description[1]
                         ELSE [k \in {} |-> <<>>])))
            ELSE FindLoop(Tail(res), objects)

find_objects(search_base, object_type, name, description, failPage) ==
    IF ObjectClassFilter(object_type) = {}
    THEN [objects |-> <<>>, queries |-> 0, errors |-> 0, raised |-> FALSE]
    ELSE LET answer == StubFind(search_base, ObjectClassFilter(object_type), name, description)
             paged == get_paged_results(
                          Server(Paginate(answer, Min(StubPageSize, PAGE_SIZE)),
                                 IF StubExists(search_base) THEN failPage ELSE 1, FALSE))
         IN [objects |-> FindLoop(paged.results, <<>>),
             queries |-> Len(paged.sent), errors |-> paged.errors, raised |-> FALSE]

----------------------------------------------------------------------------
(* ad_list_model.py: ADListModel._get_object_type *)

UAC_ACCOUNT_DISABLED == 2

\* int(text) of a decimal numeral, given as its digits.
RECURSIVE ParseInt(_)
ParseInt(digits) ==
    IF digits = <<>> THEN 0
    ELSE 10 * ParseInt(SubSeq(digits, 1, Len(digits) - 1)) + digits[Len(digits)]

\* Mutant: the flag word is compared with the mask instead of and-ed with it.
BitAnd_Equal(a, b) == IF a = b THEN a ELSE 0

\* a & b on naturals.
RECURSIVE BitAnd(_, _)
BitAnd(a, b) ==
    IF a = 0 \/ b = 0 THEN 0
    ELSE 2 * BitAnd(a \div 2, b \div 2) + (IF a % 2 = 1 /\ b % 2 = 1 THEN 1 ELSE 0)

\* item.get('userAccountControl', '0')
UacText(item) == IF "userAccountControl" \in DOMAIN item THEN item.userAccountControl ELSE <<0>>

\* Mutant: the user rule is tried before the computer rule.
_get_object_type_UserFirst(item) ==
    LET object_classes == GetAttr(item, "objectClass")
    IN IF object_classes = <<>> THEN "Unknown"
       ELSE IF "groupPolicyContainer" \in Range(object_classes) THEN "Group Policy Object"
       ELSE IF "group" \in Range(object_classes) THEN "Security Group"
       ELSE IF "user" \in Range(object_classes)
            THEN (IF BitAnd(ParseInt(UacText(item)), UAC_ACCOUNT_DISABLED) # 0
                  THEN "Disabled User" ELSE "User")
       ELSE IF "computer" \in Range(object_classes) THEN "Computer"
       ELSE IF "organizationalUnit" \in Range(object_classes) THEN "Organizational Unit"
       ELSE IF "container" \in Range(object_classes) THEN "Container"
       ELSE object_classes[Len(object_classes)]

_get_object_type(item) ==
    LET object_classes == GetAttr(item, "objectClass")
    IN IF object_classes = <<>> THEN "Unknown"
       ELSE IF "groupPolicyContainer" \in Range(object_classes) THEN "Group Policy Object"
       ELSE IF "group" \in Range(object_classes) THEN "Security Group"
       ELSE IF "computer" \in Range(object_classes) THEN "Computer"
       ELSE IF "user" \in Range(object_classes)
            THEN (IF BitAnd(ParseInt(UacText(item)), UAC_ACCOUNT_DISABLED) # 0
                  THEN "Disabled User" ELSE "User")
       ELSE IF "organizationalUnit" \in Range(object_classes) THEN "Organizational Unit"
       ELSE IF "container" \in Range(object_classes) THEN "Container"
       ELSE object_classes[Len(object_classes)]

----------------------------------------------------------------------------
(* Direct calls of the backend functions (SpecBackend): the inputs.          *)
(* An optional value is <<>> when absent and <<v>> when present.             *)

\* Class labels in one objectClass value of a drawn entry.
MaxClasses == 2

EmptyDict == [k \in {} |-> <<>>]
OptKey(k, opt) == IF opt = <<>> THEN EmptyDict ELSE k :> opt[1]
Optional(S) == {<<>>} \cup {<<v>> : v \in S}

SeqsUpTo(S, n) == UNION {[1..m -> S] : m \in 0..n}

BranchInputClasses ==
    {"top", "user", "organizationalUnit", "organizationalunit", "container", "domainPolicy"}
HiddenInputs == {<<>>, <<"TRUE">>, <<"true">>, <<"True">>, <<"FALSE">>, <<"false">>}

KindInputClasses ==
    {"top", "groupPolicyContainer", "group", "computer", "user", "organizationalUnit",
     "container", "contact"}
UacInputs == {<<0>>, <<2>>, <<5, 1, 2>>, <<5, 1, 4>>, <<6, 6, 0, 5, 0>>}

PageInputs == {<<>>, <<"e1">>, <<"e1", "e2">>, <<"e2", "e1">>, <<"e3", "e3">>}

BackendDNs == {RootDN, UsersDN, UsersDNUpper, SalesDN, EastDN, SystemDN, LabDN, GoneDN}

\* The faults a get_expandable_children(dn) call can meet.
Faults(dn) ==
    [failPage : 0..Len(Paginate(StubChildren(dn), Min(StubPageSize, PAGE_SIZE))),
     failProbes : SUBSET {StubChildren(dn)[i][1] : i \in DOMAIN StubChildren(dn)}]

\* Every request is answered.
NoFault == [failPage |-> 0, failProbes |-> {}]

NoCall == [fn |-> "none"]

\* Each direct call is made on a fresh backend: the functions keep no state.
Fresh == bk = NoCall

CallIsTreeBranch ==
    /\ Fresh
    /\ \E isdict \in BOOLEAN, adv \in BOOLEAN,
       oc \in Optional(SeqsUpTo(BranchInputClasses, MaxClasses)),
       hidden \in Optional(HiddenInputs) :
        LET entry == [isdict |-> isdict,
                      attrs |-> OptKey("objectClass", oc)
                                @@ OptKey("showInAdvancedViewOnly", hidden)]
        IN bk' = [fn |-> "_is_tree_branch", entry |-> entry, adv |-> adv,
                  ret |-> _is_tree_branch(entry, adv)]

CallGetObjectType ==
    /\ Fresh
    /\ \E oc \in Optional(SeqsUpTo(KindInputClasses, MaxClasses + 1)), uac \in Optional(UacInputs) :
        LET item == [name |-> <<"x">>] @@ OptKey("objectClass", oc)
                    @@ OptKey("userAccountControl", uac)
        IN bk' = [fn |-> "_get_object_type", item |-> item, ret |-> _get_object_type(item)]

CallGetPagedResults ==
    /\ Fresh
    /\ \E pages \in SeqsUpTo(PageInputs, MaxPages), failAt \in 0..(MaxPages + 1), dropCtrl \in BOOLEAN :
        LET srv == Server(pages, failAt, dropCtrl)
        IN bk' = [fn |-> "get_paged_results", srv |-> srv, out |-> get_paged_results(srv)]

CallHasExpandableChildren ==
    /\ Fresh
    /\ \E dn \in BackendDNs, adv \in BOOLEAN, failed \in BOOLEAN :
        bk' = [fn |-> "has_expandable_children", dn |-> dn, adv |-> adv, failed |-> failed,
               out |-> has_expandable_children(dn, adv, failed)]

CallGetExpandableChildren ==
    /\ Fresh
    /\ \E dn \in BackendDNs, adv \in BOOLEAN :
        \E fault \in Faults(dn) :
            bk' = [fn |-> "get_expandable_children", dn |-> dn, adv |-> adv, fault |-> fault,
                   out |-> get_expandable_children(dn, adv, fault)]

\* The paged requests of a get_all_objects_in_dn(dn) call that can fail.
ListFaults(dn) == 0..Len(Paginate(StubChildren(dn), Min(StubPageSize, PAGE_SIZE)))

CallGetAllObjectsInDn ==
    /\ Fresh
    /\ \E dn \in BackendDNs, failPage \in 0..(MaxPages + 1) :
        /\ failPage \in ListFaults(dn)
        /\ bk' = [fn |-> "get_all_objects_in_dn", dn |-> dn, adv |-> FALSE,
                  fault |-> [failPage |-> failPage, failProbes |-> {}],
                  out |-> get_all_objects_in_dn(dn, failPage)]

CallGetProperties ==
    /\ Fresh
    /\ \E class \in {"user", "computer", "group"},
          dn \in {BobDN, AliceDN, SalesDN, GoneDN}, failed \in BOOLEAN :
        bk' = [fn |-> "get_properties", class |-> class, dn |-> dn, failed |-> failed,
               out |-> get_properties(class, dn, failed)]

CallFindObjects ==
    /\ Fresh
    /\ \E search_base \in {RootDN, SalesDN, GoneDN},
          object_type \in {"Users, Contacts, and Groups", "Computers",
                           "Organizational Units", "Printers"},
          name \in {"", "am"}, description \in {"", "lead"},
          failPage \in 0..(MaxPages + 1) :
        bk' = [fn |-> "find_objects", search_base |-> search_base,
               object_type |-> object_type, name |-> name, description |-> description,
               failPage |-> failPage,
               out |-> find_objects(search_base, object_type, name, description, failPage)]

\* The decimal numeral of n, as the directory server writes an integer value.
RECURSIVE Digits(_)
Digits(n) == IF n < 10 THEN <<n>> ELSE Append(Digits(n \div 10), n % 10)

\* The entry with bit 0x0002 of its userAccountControl flipped in the
\* directory (an entry without the attribute gets it).
WithDisabledToggled(entry) ==
    LET old == IF "userAccountControl" \in DOMAIN entry.attrs
               THEN ParseInt(entry.attrs.userAccountControl[1]) ELSE 0
        new == IF (old \div 2) % 2 = 1 THEN old - 2 ELSE old + 2
    IN [entry EXCEPT !.attrs =
            [k \in (DOMAIN entry.attrs) \cup {"userAccountControl"} |->
                IF k = "userAccountControl" THEN <<Digits(new)>> ELSE entry.attrs[k]]]

\* get_all_objects_in_dn(dn) before and after the account-disabled bit of
\* the i-th child of dn is flipped in the directory, every request answered.
CallListAroundToggle ==
    /\ Fresh
    /\ \E dn \in BackendDNs :
        \E i \in DOMAIN StubChildren(dn) :
            /\ StubChildren(dn)[i][2].isdict
            /\ LET before == StubSearch(dn, ListAttrs)
                   after == [before EXCEPT ![i] = <<@[1], WithDisabledToggled(@[2])>>]
               IN bk' = [fn |-> "get_all_objects_in_dn around a toggle", dn |-> dn,
                         toggled |-> before[i][1],
                         uac |-> GetAttr(before[i][2].attrs, "userAccountControl"),
                         before |-> ObjectLoop(before, <<>>),
                         after |-> ObjectLoop(after, <<>>)]

\* Mutant: a repeated call is answered from the previous call's result.
Requery_Cached(c, fault) == [c.out EXCEPT !.queries = 0]

\* A further call with the arguments of call c: the functions keep nothing
\* between calls (no module-level state), so it runs as the first one did.
Requery(c, fault) ==
    IF c.fn = "get_expandable_children"
    THEN get_expandable_children(c.dn, c.adv, fault)
    ELSE get_all_objects_in_dn(c.dn, fault.failPage)

\* The same read operation called a second time, the directory unchanged.
CallAgain ==
    /\ bk.fn \in {"get_expandable_children", "get_all_objects_in_dn"}
    /\ "first" \notin DOMAIN bk
    /\ \E fault \in Faults(bk.dn) :
        /\ bk.fn = "get_all_objects_in_dn" => fault.failProbes = {}
        /\ bk' = [fn |-> bk.fn, dn |-> bk.dn, adv |-> bk.adv, fault |-> fault,
                  out |-> Requery(bk, fault),
                  first |-> bk.out, firstFault |-> bk.fault]


----------------------------------------------------------------------------
(* samba_backend.get_forest_root_info: <<>> for None, else <<info>>.         *)
(* ok: the RootDSE search succeeded and carried rootDomainNamingContext.     *)

get_forest_root_info(ok) ==
    IF ok THEN << [name |-> "home.lucasit.com", dn |-> RootDN] >> ELSE <<>>

----------------------------------------------------------------------------
(* ad_tree_model.py.  The ADTreeItem objects live in `items`; an object is   *)
(* named by its position.  items[RootItem] is the invisible root; the        *)
(* invalid QModelIndex is InvalidIndex, and the valid index of another item  *)
(* is that item's position (its internalPointer).                            *)
(* has_sub_containers is "None", "True" or "False".                          *)

RootItem == 1
InvalidIndex == 0

ADTreeItem(data, parent, dn, object_class) ==
    [data |-> data, parent |-> parent, dn |-> dn, object_class |-> object_class,
     children |-> <<>>, children_fetched |-> FALSE, has_sub_containers |-> "None"]

PyBool(b) == IF b THEN "True" ELSE "False"

set_has_sub_containers(item, value) == [item EXCEPT !.has_sub_containers = value]

set_children_fetched(item, value) == [item EXCEPT !.children_fetched = value]

child_count(its, i) == Len(its[i].children)

\* The items of a model whose root item was just created and _setup_model run.
\* The forest root is assumed to have children, whatever the directory holds.
_setup_model(forest_root_data) ==
    IF forest_root_data # <<>>
    THEN << [ADTreeItem("None", 0, "None", <<>>) EXCEPT !.children = <<2>>],
            set_has_sub_containers(
                ADTreeItem(forest_root_data[1].name, RootItem, forest_root_data[1].dn,
                           <<"domainDns">>),
                "True") >>
    ELSE << ADTreeItem("None", 0, "None", <<>>) >>

ValidIndexes(its) == (DOMAIN its) \ {RootItem}
Indexes(its) == ValidIndexes(its) \cup {InvalidIndex}

\* hasChildren(parent): its result and the directory queries it issued.
\* probeFailed: the fallback probe, if it is made, fails.
hasChildren(its, adv, parent, probeFailed) ==
    IF parent = InvalidIndex THEN [ret |-> child_count(its, RootItem) > 0, queries |-> 0]
    ELSE IF its[parent].children_fetched THEN [ret |-> child_count(its, parent) > 0, queries |-> 0]
    ELSE IF its[parent].has_sub_containers # "None"
         THEN [ret |-> its[parent].has_sub_containers = "True", queries |-> 0]
    ELSE LET probe == has_expandable_children(its[parent].dn, adv, probeFailed)
         IN [ret |-> probe.ret, queries |-> probe.queries]

\* Mutant: whatever was not fetched yet can be fetched.
canFetchMore_IgnoresFlag(its, adv, parent, probeFailed) ==
    IF parent = InvalidIndex THEN [ret |-> FALSE, queries |-> 0]
    ELSE [ret |-> ~its[parent].children_fetched, queries |-> 0]

canFetchMore(its, adv, parent, probeFailed) ==
    IF parent = InvalidIndex THEN [ret |-> FALSE, queries |-> 0]
    ELSE IF its[parent].children_fetched THEN [ret |-> FALSE, queries |-> 0]
    ELSE hasChildren(its, adv, parent, probeFailed)

\* Mutant: fetchMore creates the item and leaves its flag unset.
NewChild_Unflagged(child_data, parent) ==
    ADTreeItem(child_data.name, parent, child_data.dn, child_data.objectClass)

\* The ADTreeItem fetchMore creates for one element of child_data_list.
NewChild(child_data, parent) ==
    set_has_sub_containers(
        ADTreeItem(child_data.name, parent, child_data.dn, child_data.objectClass),
        PyBool(child_data.has_sub_containers))

\* Lines 246-253: the items after the children of child_data_list were appended.
InsertRows(its, parent, child_data_list) ==
    [i \in 1..(Len(its) + Len(child_data_list)) |->
        IF i = parent
        THEN [its[i] EXCEPT !.children =
                 @ \o [k \in 1..Len(child_data_list) |-> Len(its) + k]]
        ELSE IF i <= Len(its) THEN its[i]
        ELSE NewChild(child_data_list[i - Len(its)], parent)]

\* Mutant: fetchMore forgets to mark the parent as fetched.
MarkFetched_Forgotten(its, parent) == its

\* Mutant: fetchMore also rewrites the parent's flag from what the fetch produced.
MarkFetched_RefreshesFlag(its, parent) ==
    [its EXCEPT ![parent] =
        set_has_sub_containers(set_children_fetched(@, TRUE), PyBool(Len(@.children) > 0))]

\* Mutant: the parent is marked only when the fetch produced a child.
MarkFetched_OnlyWithChildren(its, parent) ==
    [its EXCEPT ![parent] = set_children_fetched(@, Len(@.children) > 0)]

\* Line 255.
MarkFetched(its, parent) ==
    [its EXCEPT ![parent] = set_children_fetched(@, TRUE)]

----------------------------------------------------------------------------
(* The view's calls on the model, and the advanced-features toggle *)

HasChildren(parent) ==
    \E probeFailed \in BOOLEAN :
        LET r == hasChildren(items, advanced_view, parent, probeFailed)
        IN /\ treeRet' = [op |-> "hasChildren", index |-> parent, ret |-> PyBool(r.ret)]
           /\ probeQueries' = probeQueries + r.queries
           /\ UNCHANGED <<items, advanced_view, fetchQueries, resets>>

CanFetchMore(parent) ==
    \E probeFailed \in BOOLEAN :
        LET r == canFetchMore(items, advanced_view, parent, probeFailed)
        IN /\ treeRet' = [op |-> "canFetchMore", index |-> parent, ret |-> PyBool(r.ret)]
           /\ probeQueries' = probeQueries + r.queries
           /\ UNCHANGED <<items, advanced_view, fetchQueries, resets>>

\* fetchMore on the invalid index takes the invisible root, whose dn is None:
\* python-ldap rejects a None search base with a TypeError before any request
\* is sent, and the exception leaves fetchMore with nothing changed.
FetchMoreInvalid ==
    /\ treeRet' = [op |-> "fetchMore", index |-> InvalidIndex, ret |-> "TypeError"]
    /\ UNCHANGED <<items, advanced_view, fetchQueries, probeQueries, resets>>

FetchMore(parent) ==
    \E probeFailed \in BOOLEAN :
        LET can == canFetchMore(items, advanced_view, parent, probeFailed)
        IN IF ~can.ret
           THEN /\ treeRet' = [op |-> "fetchMore", index |-> parent, ret |-> "returned early"]
                /\ probeQueries' = probeQueries + can.queries
                /\ UNCHANGED <<items, advanced_view, fetchQueries, resets>>
           ELSE \E fault \in Faults(items[parent].dn) :
                  LET got == get_expandable_children(items[parent].dn, advanced_view, fault)
                  IN /\ items' = MarkFetched(InsertRows(items, parent, got.children), parent)
                     /\ fetchQueries' =
                            [i \in DOMAIN items' |->
                                IF i = parent THEN fetchQueries[i] + 1
                                ELSE IF i \in DOMAIN fetchQueries THEN fetchQueries[i] ELSE 0]
                     /\ probeQueries' = probeQueries + can.queries
                     /\ treeRet' = [op |-> "fetchMore", index |-> parent, ret |-> "fetched"]
                     /\ UNCHANGED <<advanced_view, resets>>

\* set_advanced_view(enabled): the root item is replaced and _setup_model run.
set_advanced_view(enabled, rootOk) ==
    [advanced_view |-> enabled, items |-> _setup_model(get_forest_root_info(rootOk))]

\* ADTreeModel.__init__(samba_conn, advanced_view)
ADTreeModel(adv, rootOk) ==
    [advanced_view |-> adv, items |-> _setup_model(get_forest_root_info(rootOk))]

\* gui._on_advanced_features_toggled(checked): set_advanced_view on the current
\* model, then _setup_tree_view_model builds a new model from the action's state.
OnAdvancedFeaturesToggled ==
    /\ resets < MaxResets
    /\ \E rootOk1 \in BOOLEAN, rootOk2 \in BOOLEAN :
        LET checked == ~advanced_view
            old == set_advanced_view(checked, rootOk1)
            new == ADTreeModel(checked, rootOk2)
        IN /\ items' = new.items
           /\ advanced_view' = new.advanced_view
           /\ fetchQueries' = [i \in DOMAIN new.items |-> 0]
           /\ resets' = resets + 1
           /\ treeRet' = [op |-> "set_advanced_view", index |-> InvalidIndex,
                          ret |-> PyBool(old.advanced_view)]
           /\ UNCHANGED probeQueries

InitTree ==
    /\ \E rootOk \in BOOLEAN :
          /\ items = ADTreeModel(FALSE, rootOk).items
          /\ fetchQueries = [i \in DOMAIN ADTreeModel(FALSE, rootOk).items |-> 0]
    /\ advanced_view = FALSE
    /\ probeQueries = 0
    /\ resets = 0
    /\ treeRet = [op |-> "init", index |-> InvalidIndex, ret |-> "None"]


----------------------------------------------------------------------------
(* samba_backend.get_ldap_conn.                                              *)
(* Its environment: ticket (klist -s succeeds), the DNS answer (dnsOk and    *)
(* the SRV records in the order the resolver gives them) and `up`, the       *)
(* servers whose GSSAPI bind succeeds; any other server raises an LDAPError. *)

\* str(r.target).rstrip('.') on the targets the model uses.
RStripDot(target) ==
    CASE target = "dc1.home.lucasit.com." -> "dc1.home.lucasit.com"
      [] target = "dc2.home.lucasit.com." -> "dc2.home.lucasit.com"
      [] target = "dc3.home.lucasit.com." -> "dc3.home.lucasit.com"
      [] target = "dc4.home.lucasit.com." -> "dc4.home.lucasit.com"
      [] OTHER -> target

\* Mutant: the weight is compared before the priority.
SrvKey_WeightFirst(r) == <<r.weight, r.priority>>

\* key=lambda x: (x.priority, x.weight)
SrvKey(r) == <<r.priority, r.weight>>

\* Tuple comparison k1 < k2.
KeyLess(k1, k2) == k1[1] < k2[1] \/ (k1[1] = k2[1] /\ k1[2] < k2[2])

\* sorted(): stable, so r goes behind every element whose key is not greater.
RECURSIVE InsertByKey(_, _)
InsertByKey(sorted, r) ==
    IF sorted = <<>> THEN <<r>>
    ELSE IF KeyLess(SrvKey(r), SrvKey(Head(sorted))) THEN <<r>> \o sorted
    ELSE <<Head(sorted)>> \o InsertByKey(Tail(sorted), r)

RECURSIVE SortedByKey(_)
SortedByKey(answers) ==
    IF answers = <<>> THEN <<>>
    ELSE InsertByKey(SortedByKey(SubSeq(answers, 1, Len(answers) - 1)), answers[Len(answers)])

\* The for loop of lines 101-115 over the rest of server_list.
RECURSIVE BindLoop(_, _, _)
BindLoop(server_list, up, contacted) ==
    IF server_list = <<>>
    THEN [exc |-> "None", value |-> "pair", conn |-> "None", server |-> "None",
          contacted |-> contacted]
    ELSE IF Head(server_list) \in up
         THEN [exc |-> "None", value |-> "pair", conn |-> Head(server_list),
               server |-> Head(server_list), contacted |-> Append(contacted, Head(server_list))]
         ELSE BindLoop(Tail(server_list), up, Append(contacted, Head(server_list)))

\* What the call did: exc is the exception it raised ("None": it returned);
\* value is "None" when it returned the single value None and "pair" when it
\* returned a 2-tuple (conn, server), either of which may be "None";
\* contacted lists the servers a bind was attempted on, in order.
get_ldap_conn(hasTicket, dnsOk, answers, up) ==
    IF ~hasTicket
    THEN [exc |-> "NoKerberosTicketError", value |-> "None", conn |-> "None",
          server |-> "None", contacted |-> <<>>]
    ELSE IF ~dnsOk
    THEN [exc |-> "None", value |-> "None", conn |-> "None", server |-> "None",
          contacted |-> <<>>]
    ELSE LET ldap_servers == SortedByKey(answers)
             server_list == [i \in DOMAIN ldap_servers |-> RStripDot(ldap_servers[i].target)]
         IN BindLoop(server_list, up, <<>>)

----------------------------------------------------------------------------
(* main.py: main() and get_authenticated_connection().                       *)
(* pc: "loop"   at the head of `while samba_conn is None`, samba_conn None   *)
(*     "dialog" the UsernamePasswordDialog is open                           *)
(*     "kinit"  kinit is about to run                                        *)
(*     "window" get_authenticated_connection returned a connection and main  *)
(*              goes on to build the main window                             *)
(*     "exit0" / "exit1"  the process exited with that status                *)

SrvInputs ==
    {[target |-> "dc1.home.lucasit.com.", priority |-> 0, weight |-> 1],
     [target |-> "dc2.home.lucasit.com.", priority |-> 0, weight |-> 0],
     [target |-> "dc3.home.lucasit.com.", priority |-> 1, weight |-> 0],
     [target |-> "dc4.home.lucasit.com.", priority |-> 0, weight |-> 1]}

ServerNames == {RStripDot(r.target) : r \in SrvInputs}

\* The DNS answers: up to MaxServers distinct records, in any order.
DnsAnswers ==
    {a \in SeqsUpTo(SrvInputs, MaxServers) :
        Len(a) >= 1 /\ \A i, j \in DOMAIN a : i # j => a[i] # a[j]}

NotCalled ==
    [exc |-> "NotCalled", value |-> "None", conn |-> "None", server |-> "None",
     contacted |-> <<>>, hadTicket |-> FALSE, dnsOk |-> FALSE, answers |-> <<>>, up |-> {}]

\* What main() does with the outcome of the get_ldap_conn call at line 47.
AfterConnect(r) ==
    IF r.exc = "NoKerberosTicketError" THEN "dialog"
    \* unpacking None raises a TypeError, which main() reports and exits on
    ELSE IF r.value = "None" THEN "exit1"
    \* samba_conn is None: the while condition holds again
    ELSE IF r.conn = "None" THEN "loop"
    ELSE "window"

\* The state after a get_ldap_conn call made in the given environment.
Connected(dnsOk, answers, up) ==
    LET r == get_ldap_conn(ticket, dnsOk, answers, up)
    IN /\ lastConn' = [exc |-> r.exc, value |-> r.value, conn |-> r.conn,
                       server |-> r.server, contacted |-> r.contacted,
                       hadTicket |-> ticket, dnsOk |-> dnsOk, answers |-> answers, up |-> up]
       /\ pc' = AfterConnect(r)
       /\ fatalErrors' = IF AfterConnect(r) = "exit1" THEN fatalErrors + 1 ELSE fatalErrors

\* Line 47.  The environment is drawn only as far as the call looks at it.
Connect ==
    /\ pc = "loop"
    /\ connCalls < MaxConnCalls
    /\ IF ~ticket THEN Connected(FALSE, <<>>, {})
       ELSE \/ Connected(FALSE, <<>>, {})
            \/ \E answers \in DnsAnswers :
                 \E up \in SUBSET {RStripDot(answers[i].target) : i \in DOMAIN answers} :
                    Connected(TRUE, answers, up)
    /\ connCalls' = connCalls + 1
    /\ UNCHANGED <<ticket, prompts, kinitCalls, lastKinit, auth_dialog>>

\* What the user may leave in the two line edits of the dialog.
Usernames == {"", "alice"}
Passwords == {"", "secret"}

\* No dialog has been shown yet.
NoDialog == [result |-> "None", credentials |-> <<>>, message |-> "None"]

\* Mutant: only the username is required.
CredentialsMissing_UsernameOnly(username, password) == username = ""

\* Line 55: `not username or not password`, on the texts of the line edits
\* as get_credentials returns them.
CredentialsMissing(username, password) == username = "" \/ password = ""

\* Lines 51-57 and 87-89: the result of exec_(), the credentials read after
\* an accepted dialog (get_credentials is not called otherwise), and the
\* message box that follows at once.
DialogOutcome(accepted, username, password) ==
    [result |-> IF accepted THEN "Accepted" ELSE "Rejected",
     credentials |-> IF accepted THEN <<username, password>> ELSE <<>>,
     message |-> IF ~accepted THEN "Authentication Canceled"
                 ELSE IF CredentialsMissing(username, password)
                      THEN "Username and password cannot be empty."
                      ELSE "None"]

\* Mutant: an accepted dialog with an empty field ends the flow.
Dialog_EmptyExits ==
    /\ pc = "dialog"
    /\ prompts' = prompts + 1
    /\ \E accepted \in BOOLEAN, username \in Usernames, password \in Passwords :
        /\ auth_dialog' = DialogOutcome(accepted, username, password)
        /\ pc' = IF ~accepted THEN "exit0"
                 ELSE IF CredentialsMissing(username, password) THEN "exit1"
                 ELSE "kinit"
    /\ UNCHANGED <<ticket, lastConn, connCalls, kinitCalls, lastKinit, fatalErrors>>

\* auth_dialog.exec_() and the check of the credentials.
Dialog ==
    /\ pc = "dialog"
    /\ prompts' = prompts + 1
    /\ \E accepted \in BOOLEAN, username \in Usernames, password \in Passwords :
        /\ auth_dialog' = DialogOutcome(accepted, username, password)
        /\ pc' = IF ~accepted THEN "exit0"
                 ELSE IF CredentialsMissing(username, password) THEN "loop"
                 ELSE "kinit"
    /\ UNCHANGED <<ticket, lastConn, connCalls, kinitCalls, lastKinit, fatalErrors>>

\* Mutant: a second kinit failure ends the flow.
AfterKinit_RetryOnce(result, calls) ==
    IF result = "Exception" \/ (result = "CalledProcessError" /\ calls >= 1)
    THEN "exit1" ELSE "loop"

\* Where the flow goes after kinit (lines 73-86): sys.exit(1) on an unexpected
\* exception, back to the while loop otherwise, however many kinit
\* invocations (calls) have failed before.
AfterKinit(result, calls) ==
    IF result = "Exception" THEN "exit1" ELSE "loop"

\* subprocess.run(['kinit', principal], ..., check=True)
Kinit ==
    /\ pc = "kinit"
    /\ kinitCalls' = kinitCalls + 1
    /\ \E result \in {"ok", "CalledProcessError", "Exception"} :
        /\ ticket' = (ticket \/ result = "ok")
        /\ lastKinit' = result
        /\ pc' = AfterKinit(result, kinitCalls)
    /\ UNCHANGED <<lastConn, connCalls, prompts, auth_dialog, fatalErrors>>

InitStartup ==
    /\ pc = "loop"
    /\ ticket \in BOOLEAN
    /\ lastConn = NotCalled
    /\ connCalls = 0
    /\ prompts = 0
    /\ kinitCalls = 0
    /\ lastKinit = "None"
    /\ auth_dialog = NoDialog
    /\ fatalErrors = 0

----------------------------------------------------------------------------
(* The list pane: ad_list_model.ADListModel and gui._on_tree_item_clicked *)

\* The order of Python's str comparison on the lower-cased keys in use.
StrRank(s) ==
    CASE s = "" -> 0
      [] s = "alice a" -> 1
      [] s = "amy" -> 2
      [] s = "bob" -> 3
      [] s = "container" -> 4
      [] s = "default container" -> 5
      [] s = "disabled user" -> 6
      [] s = "east" -> 7
      [] s = "krbtgt" -> 8
      [] s = "lab" -> 9
      [] s = "organizational unit" -> 10
      [] s = "policies" -> 11
      [] s = "sales" -> 12
      [] s = "system" -> 13
      [] s = "team lead" -> 14
      [] s = "user" -> 15
      [] s = "users" -> 16
      [] s = "zed" -> 17

\* item.get(key, '')
GetText(item, key) == IF key \in DOMAIN item THEN item[key] ELSE ""

\* key_func of lines 138-143 (columns 0, 1, 2)
key_func(column, item) ==
    IF column = 0 THEN Lower(GetText(item, "name"))
    ELSE IF column = 1 THEN Lower(_get_object_type(item))
    ELSE Lower(GetText(item, "description"))

\* Must the new row go in front of the row already placed?
GoesBefore(column, reverse, new, placed) ==
    IF reverse THEN StrRank(key_func(column, new)) > StrRank(key_func(column, placed))
    ELSE StrRank(key_func(column, new)) < StrRank(key_func(column, placed))

\* The sorted rows with one more row put at its place: behind every row it
\* need not precede.
RECURSIVE PlaceRow(_, _, _, _)
PlaceRow(column, reverse, sorted, new) ==
    IF sorted = <<>> THEN <<new>>
    ELSE IF GoesBefore(column, reverse, new, sorted[Len(sorted)])
         THEN Append(PlaceRow(column, reverse, SubSeq(sorted, 1, Len(sorted) - 1), new),
                     sorted[Len(sorted)])
         ELSE Append(sorted, new)

RECURSIVE SortedFrom(_, _, _, _)
SortedFrom(column, reverse, rows, sorted) ==
    IF rows = <<>> THEN sorted
    ELSE SortedFrom(column, reverse, Tail(rows), PlaceRow(column, reverse, sorted, Head(rows)))

Reversed(rows) == [i \in DOMAIN rows |-> rows[Len(rows) + 1 - i]]

\* Mutant: a descending sort is the ascending sort turned round.
ListSort_ReversedAscending(rows, column, reverse) ==
    IF reverse THEN Reversed(SortedFrom(column, FALSE, rows, <<>>))
    ELSE SortedFrom(column, FALSE, rows, <<>>)

\* self._data.sort(key=key_func, reverse=reverse): list.sort is stable, also
\* with reverse=True.
ListSort(rows, column, reverse) == SortedFrom(column, reverse, rows, <<>>)

\* ADListModel.sort(column, order)
sort(rows, column, order) ==
    IF column \in {0, 1, 2} THEN ListSort(rows, column, order = "DescendingOrder")
    ELSE rows

\* ADListModel.setData(data); None is rendered as the empty list.
setData(data) == data

\* ADListModel.clear_data()
clear_data == setData(<<>>)

\* gui.py line 279, before the query is sent.
ClearPreviousState(rows) == clear_data

\* _on_tree_item_clicked(index) for a valid index: the list is cleared, the
\* container's objects are fetched and handed to the model; if the fetch
\* raises, the cleared list stays.
OnTreeItemClicked(index) ==
    /\ \E failPage \in ListFaults(items[index].dn) :
         LET cleared == ClearPreviousState(_data)
             got == get_all_objects_in_dn(items[index].dn, failPage)
         IN /\ _data' = IF got.raised THEN cleared ELSE setData(got.objects)
            /\ listOp' = [op |-> "click", index |-> index, dn |-> items[index].dn,
                          failPage |-> failPage, out |-> got]
    /\ currentContainerDN' = items[index].dn
    /\ UNCHANGED current_selected_dn
    /\ UNCHANGED treeVars

\* The view asks for a sort (a click on a header section).
Sort ==
    \E column \in 0..3, order \in {"AscendingOrder", "DescendingOrder"} :
        /\ _data' = sort(_data, column, order)
        /\ listOp' = [op |-> "sort", column |-> column, order |-> order]
        /\ UNCHANGED <<currentContainerDN, current_selected_dn>>
        /\ UNCHANGED treeVars

\* ADListModel.get_object_data(index) for the 0-based row of the index (-1:
\* the invalid index): <<>> for None.
get_object_data(rows, row) ==
    IF row >= 0 /\ row < Len(rows) THEN <<rows[row + 1]>> ELSE <<>>

\* _on_table_item_clicked(index)
OnTableItemClicked(row) ==
    /\ current_selected_dn' =
           IF get_object_data(_data, row) = <<>> THEN current_selected_dn
           ELSE get_object_data(_data, row)[1].dn
    /\ listOp' = [op |-> "table click", row |-> row]
    /\ UNCHANGED <<_data, currentContainerDN>>
    /\ UNCHANGED treeVars

\* The entries _on_list_context_menu puts into the menu of a row.
ContextMenuActions(obj) ==
    LET obj_classes == Range(obj.objectClass)
    IN IF "user" \in obj_classes /\ "computer" \notin obj_classes
       THEN {"copy_user", "delete_user", "disable_user", "properties"}
       ELSE IF "computer" \in obj_classes \/ "group" \in obj_classes
       THEN {"properties"}
       ELSE {}

\* _on_list_context_menu(position) on a row, and the entry chosen from the
\* menu: the handler of the entry works on current_selected_dn (target), which
\* the context menu does not set; with None it returns at once.
OnListContextMenu(row) ==
    /\ get_object_data(_data, row) # <<>>
    /\ \E action \in ContextMenuActions(get_object_data(_data, row)[1]) :
         listOp' = [op |-> "context menu", row |-> row, action |-> action,
                    target |-> current_selected_dn]
    /\ UNCHANGED <<_data, currentContainerDN, current_selected_dn>>
    /\ UNCHANGED treeVars

\* _setup_table_view_model: an empty ADListModel, no container chosen.
InitList ==
    /\ _data = <<>>
    /\ currentContainerDN = "None"
    /\ listOp = [op |-> "none"]
    /\ current_selected_dn = "None"

----------------------------------------------------------------------------
(* The mutation entry points: gui.py, main_window_actions.py,               *)
(* computer_properties.py, user_properties.py, samba_backend.py             *)

PC1DN == "CN=PC1,CN=Computers,DC=home,DC=lucasit,DC=com"
DomainComputersDN == "CN=Domain Computers,CN=Users,DC=home,DC=lucasit,DC=com"
DomainControllersDN == "CN=Domain Controllers,CN=Users,DC=home,DC=lucasit,DC=com"
ServersGroupDN == "CN=Servers,OU=Sales,DC=home,DC=lucasit,DC=com"

\* The groups of the stub directory and their primaryGroupToken.
GroupToken(group_dn) ==
    CASE group_dn = DomainComputersDN -> "515"
      [] group_dn = DomainControllersDN -> "516"
      [] group_dn = ServersGroupDN -> "1105"

StubGroups == {DomainComputersDN, DomainControllersDN, ServersGroupDN}

\* memberOf of the computer entry.
StubMemberOf == <<DomainControllersDN, ServersGroupDN>>

\* Mutant: the placeholder adds the user to the directory.
create_user_samba_Writes(dir, user_data) ==
    [ret |-> <<TRUE, "samba_backend.success.create_user">>,
     directory |-> [dir EXCEPT !.users = @ \cup {user_data.name}],
     sent |-> << [op |-> "add", dn |-> user_data.name] >>]

\* create_user_samba(samba_conn, user_data): a placeholder
create_user_samba(dir, user_data) ==
    [ret |-> <<TRUE, "samba_backend.success.create_user">>, directory |-> dir, sent |-> <<>>]

\* copy_user_samba(samba_conn, source_username, new_user_data): a placeholder
copy_user_samba(dir, source_username, new_user_data) ==
    [ret |-> <<TRUE, "samba_backend.success.copy_user">>, directory |-> dir, sent |-> <<>>]

\* Mutant: success is reported whatever modify_s did.
update_object_attributes_AlwaysTrue(dir, dn, modifications, accepted) ==
    [ret |-> <<TRUE, "Object updated successfully.">>,
     directory |-> IF accepted THEN [dir EXCEPT ![modifications.attr] = modifications.value]
                   ELSE dir,
     sent |-> << [op |-> "modify", dn |-> dn, attr |-> modifications.attr,
                  value |-> modifications.value, accepted |-> accepted] >>,
     raised |-> FALSE]

\* update_object_attributes(samba_conn, dn, modifications); accepted: modify_s
\* returned, else it raised an LDAPError, whose text is "LDAPError".
update_object_attributes(dir, dn, modifications, accepted) ==
    [ret |-> IF accepted THEN <<TRUE, "Object updated successfully.">>
             ELSE <<FALSE, "LDAPError">>,
     directory |-> IF accepted THEN [dir EXCEPT ![modifications.attr] = modifications.value]
                   ELSE dir,
     sent |-> << [op |-> "modify", dn |-> dn, attr |-> modifications.attr,
                  value |-> modifications.value, accepted |-> accepted] >>,
     raised |-> FALSE]

\* get_group_by_rid(samba_conn, rid): <<>> for None; found: the searches
\* were answered.
get_group_by_rid(rid, found) ==
    LET hits == {g \in StubGroups : GroupToken(g) = rid}
    IN IF found /\ hits # {} THEN <<CHOOSE g \in hits : TRUE>> ELSE <<>>

\* ComputerPropertiesDialog._load_computer_data, as far as the Member Of tab
\* goes: the primary group's row first, then the other groups of memberOf
\* whose properties could be read.
_load_computer_data(dir, old, propsOk, ridOk, readable) ==
    IF ~propsOk THEN old
    ELSE LET primary_group_info ==
                 IF get_group_by_rid(dir.primaryGroupID, ridOk) = <<>> THEN DomainComputersDN
                 ELSE get_group_by_rid(dir.primaryGroupID, ridOk)[1]
             IsOther(group_dn) == group_dn \in readable /\ group_dn # primary_group_info
         IN [primary |-> primary_group_info,
             rows |-> <<primary_group_info>> \o SelectSeq(StubMemberOf, IsOther)]

\* ComputerPropertiesDialog(samba_conn, computer_dn): the dialog opens and
\* loads the entry.
OpenComputerProperties ==
    /\ \E propsOk \in BOOLEAN, ridOk \in BOOLEAN, readable \in SUBSET Range(StubMemberOf) :
        shown' = _load_computer_data(directory, [primary |-> "None", rows |-> <<>>],
                                    propsOk, ridOk, readable)
    /\ uiOp' = [op |-> "open computer properties"]
    /\ UNCHANGED directory
    /\ UNCHANGED <<treeVars, listVars>>

\* ComputerPropertiesDialog._set_primary_group; current_row is 0-based, -1
\* when no row is selected.  The first alternative for a selected row is
\* get_group_properties delivering None or no primaryGroupToken.
SetPrimaryGroup ==
    /\ \E current_row \in -1..(Len(shown.rows) - 1) :
        IF current_row < 0
        THEN /\ uiOp' = [op |-> "set_primary_group", message |-> "No Selection", called |-> FALSE]
             /\ UNCHANGED <<directory, shown>>
        ELSE
          \/ /\ uiOp' = [op |-> "set_primary_group", message |-> "Error", called |-> FALSE]
             /\ UNCHANGED <<directory, shown>>
          \/ \E accepted \in BOOLEAN :
             LET group_dn == shown.rows[current_row + 1]
                 modifications == [attr |-> "primaryGroupID", value |-> GroupToken(group_dn)]
                 r == update_object_attributes(directory, PC1DN, modifications, accepted)
             IN /\ directory' = r.directory
                /\ IF r.ret[1]
                   THEN \E propsOk \in BOOLEAN, ridOk \in BOOLEAN,
                           readable \in SUBSET Range(StubMemberOf) :
                          shown' = _load_computer_data(r.directory, shown, propsOk, ridOk,
                                                      readable)
                   ELSE shown' = shown
                /\ uiOp' = [op |-> "set_primary_group",
                            message |-> IF r.ret[1] THEN "Success" ELSE "Error",
                            called |-> TRUE, ret |-> r.ret, raised |-> r.raised,
                            sent |-> r.sent, reloaded |-> r.ret[1]]
    /\ UNCHANGED <<treeVars, listVars>>

\* The list refresh after a reported success:
\* self._on_tree_item_clicked(self.treePane.currentIndex())
RefreshList(index) ==
    IF index = InvalidIndex THEN UNCHANGED <<treeVars, listVars>>
    ELSE OnTreeItemClicked(index)

\* _on_new_user_action_triggered
OnNewUserActionTriggered ==
    \E accepted \in BOOLEAN, user_data \in {<<>>, <<[name |-> "CN=new"]>>} :
        IF accepted /\ user_data # <<>>
        THEN LET r == create_user_samba(directory, user_data[1])
             IN /\ directory' = r.directory
                /\ uiOp' = [op |-> "new_user", ret |-> r.ret, sent |-> r.sent]
                /\ UNCHANGED shown
                /\ IF r.ret[1] THEN \E index \in Indexes(items) : RefreshList(index)
                   ELSE UNCHANGED <<treeVars, listVars>>
        ELSE /\ uiOp' = [op |-> "new_user", ret |-> <<>>]
             /\ UNCHANGED <<directory, shown>>
             /\ UNCHANGED <<treeVars, listVars>>

\* _on_copy_user_action_triggered; propsOk: get_user_properties delivered
\* the source user's properties.
OnCopyUserActionTriggered ==
    \E accepted \in BOOLEAN, user_data \in {<<>>, <<[name |-> "CN=copy"]>>},
       propsOk \in BOOLEAN :
        IF current_selected_dn # "None" /\ propsOk /\ accepted /\ user_data # <<>>
        THEN LET r == copy_user_samba(directory, current_selected_dn, user_data[1])
             IN /\ directory' = r.directory
                /\ uiOp' = [op |-> "copy_user", ret |-> r.ret, sent |-> r.sent]
                /\ UNCHANGED shown
                /\ IF r.ret[1] THEN \E index \in Indexes(items) : RefreshList(index)
                   ELSE UNCHANGED <<treeVars, listVars>>
        ELSE /\ uiOp' = [op |-> "copy_user", ret |-> <<>>]
             /\ UNCHANGED <<directory, shown>>
             /\ UNCHANGED <<treeVars, listVars>>

\* _on_delete_user_action_triggered, _on_disable_user_action_triggered,
\* apply_changes, _add_to_group and _remove_from_group of the computer
\* dialog: each ends in a message or a log line.
Placeholder ==
    /\ \E op \in {"delete_user", "disable_user", "apply_changes", "add_to_group",
                   "remove_from_group"}, confirmed \in BOOLEAN :
        /\ uiOp' = [op |-> op,
                    message |-> IF op \in {"delete_user", "disable_user"}
                                   /\ current_selected_dn = "None"
                                THEN "No Selection"
                                ELSE IF op \in {"delete_user", "disable_user"} /\ ~confirmed
                                THEN "None"
                                ELSE IF op = "apply_changes" THEN "None"
                                ELSE "Not Implemented"]
    /\ UNCHANGED <<directory, shown>>
    /\ UNCHANGED <<treeVars, listVars>>

\* The directory before any write, no dialog open.
InitActions ==
    /\ directory = [primaryGroupID |-> "515", users |-> {BobDN, KrbtgtDN, AliceDN}]
    /\ shown = [primary |-> "None", rows |-> <<>>]
    /\ uiOp = [op |-> "none"]
    /\ user_dn = "None"
    /\ member_of_table = <<>>

----------------------------------------------------------------------------
(* The user properties dialog: user_properties.UserPropertiesDialog         *)

StaffDN == "CN=Staff,OU=Sales,DC=home,DC=lucasit,DC=com"
AdminsDN == "CN=Domain Admins,CN=Users,DC=home,DC=lucasit,DC=com"
PrintersDN == "Printer Operators"

\* memberOf of the user entries of the stub directory.
StubUserMemberOf(dn) ==
    CASE dn = BobDN -> <<StaffDN, AdminsDN, PrintersDN>>
      [] dn = AliceDN -> <<StaffDN>>
      [] OTHER -> <<>>

\* group_dn.split(',')[0].replace('CN=', '') if 'CN=' in group_dn else group_dn
GroupCn(group_dn) ==
    CASE group_dn = StaffDN -> "Staff"
      [] group_dn = AdminsDN -> "Domain Admins"
      [] OTHER -> group_dn

\* The Member Of rows put up by _load_user_data; propsOk: get_user_properties
\* delivered the entry, else the table stays as it is.
_load_user_data(old, dn, propsOk) ==
    IF ~propsOk THEN old
    ELSE <<"Domain Users">> \o [i \in DOMAIN StubUserMemberOf(dn) |->
                                   GroupCn(StubUserMemberOf(dn)[i])]

\* QTableWidget.removeRow(row), row 0-based
removeRow(rows, row) == SubSeq(rows, 1, row) \o SubSeq(rows, row + 2, Len(rows))

\* What the handlers of the user dialog leave alone.
OnlyUserDialog ==
    UNCHANGED <<treeVars, startVars, bk, listVars, directory, shown>>

\* UserPropertiesDialog(samba_conn, user_dn): the dialog opens on a user of
\* the directory and loads the entry.
OpenUserProperties ==
    /\ \E dn \in directory.users, propsOk \in BOOLEAN :
         /\ user_dn' = dn
         /\ member_of_table' = _load_user_data(<<>>, dn, propsOk)
    /\ uiOp' = [op |-> "open user properties"]

\* UserPropertiesDialog._remove_from_group, the table it leaves; current_row
\* is 0-based, -1 when no row is selected.
UserRemoveFromGroup(rows, current_row) ==
    IF current_row >= 0
    THEN IF current_row = 0 THEN rows ELSE removeRow(rows, current_row)
    ELSE rows

\* A click on Remove in the Member Of tab of the user dialog.
OnUserRemoveFromGroup ==
    /\ user_dn # "None"
    /\ \E current_row \in -1..(Len(member_of_table) - 1) :
         /\ member_of_table' = UserRemoveFromGroup(member_of_table, current_row)
         /\ uiOp' = [op |-> "user remove_from_group", row |-> current_row,
                     message |-> IF current_row = 0 THEN "Warning" ELSE "None",
                     sent |-> <<>>]
    /\ UNCHANGED user_dn

\* _select_manager, _add_to_group, _set_primary_group and apply_changes of
\* the user dialog: each writes a log line.
UserPlaceholder ==
    /\ user_dn # "None"
    /\ \E op \in {"user select_manager", "user add_to_group", "user set_primary_group",
                   "user apply_changes"} :
         uiOp' = [op |-> op, message |-> "None", sent |-> <<>>]
    /\ UNCHANGED dlgVars

----------------------------------------------------------------------------
(* The specifications *)

\* Before main() has built the main window there is no tree model.
NoTree ==
    /\ items = <<>>
    /\ advanced_view = FALSE
    /\ fetchQueries = <<>>
    /\ probeQueries = 0
    /\ resets = 0
    /\ treeRet = [op |-> "init", index |-> InvalidIndex, ret |-> "None"]

\* get_authenticated_connection has returned a connection.
Started ==
    /\ pc = "window"
    /\ ticket = TRUE
    /\ lastConn = NotCalled
    /\ connCalls = 0
    /\ prompts = 0
    /\ kinitCalls = 0
    /\ lastKinit = "None"
    /\ auth_dialog = NoDialog
    /\ fatalErrors = 0

\* Mutant: a list query that met an error is followed by a new bind.
OnlyList_Reconnects ==
    /\ UNCHANGED <<bk, actVars, dlgVars>>
    /\ UNCHANGED <<pc, ticket, prompts, kinitCalls, lastKinit, auth_dialog, fatalErrors, lastConn>>
    /\ connCalls' = IF listOp'.op = "click" /\ listOp'.out.errors > 0
                    THEN connCalls + 1 ELSE connCalls

\* What a step of one part of the program leaves alone.
OnlyTree == UNCHANGED <<startVars, bk, listVars, actVars, dlgVars>>
OnlyStartup == UNCHANGED <<treeVars, bk, listVars, actVars, dlgVars>>
OnlyBackend == UNCHANGED <<treeVars, startVars, listVars, actVars, dlgVars>>
OnlyList == UNCHANGED <<startVars, bk, actVars, dlgVars>>
OnlyActions == UNCHANGED <<startVars, bk, dlgVars>>

\* The interactive session.
Init == InitTree /\ Started /\ bk = NoCall /\ InitList /\ InitActions

Next ==
    \/ \E parent \in Indexes(items) : HasChildren(parent) /\ OnlyTree
    \/ \E parent \in Indexes(items) : CanFetchMore(parent) /\ OnlyTree
    \/ \E parent \in ValidIndexes(items) : FetchMore(parent) /\ OnlyTree
    \/ FetchMoreInvalid /\ OnlyTree
    \/ OnAdvancedFeaturesToggled /\ OnlyTree

Spec == Init /\ [][Next]_vars

\* Start-up.
InitStart == InitStartup /\ NoTree /\ bk = NoCall /\ InitList /\ InitActions

NextStartup ==
    \/ Connect /\ OnlyStartup
    \/ Dialog /\ OnlyStartup
    \/ Kinit /\ OnlyStartup

SpecStartup == InitStart /\ [][NextStartup]_vars

\* The backend functions, called directly.
InitBackend == NoTree /\ Started /\ bk = NoCall /\ InitList /\ InitActions

NextBackend ==
    \/ CallIsTreeBranch /\ OnlyBackend
    \/ CallGetObjectType /\ OnlyBackend
    \/ CallGetPagedResults /\ OnlyBackend
    \/ CallHasExpandableChildren /\ OnlyBackend
    \/ CallGetExpandableChildren /\ OnlyBackend
    \/ CallGetAllObjectsInDn /\ OnlyBackend
    \/ CallAgain /\ OnlyBackend
    \/ CallListAroundToggle /\ OnlyBackend
    \/ CallGetProperties /\ OnlyBackend
    \/ CallFindObjects /\ OnlyBackend

SpecBackend == InitBackend /\ [][NextBackend]_vars

\* The tree after fetchMore(parent) with every request answered.
Expanded(its, parent) ==
    MarkFetched(InsertRows(its, parent,
                           get_expandable_children(its[parent].dn, FALSE, NoFault).children),
                parent)

\* The tree with the forest root and then OU=Sales expanded.
ExpandedItems ==
    LET top == Expanded(ADTreeModel(FALSE, TRUE).items, 2)
    IN Expanded(top, CHOOSE i \in DOMAIN top : top[i].dn = SalesDN)

\* The list pane, driven from the expanded tree of a normal-view session.
InitListPane ==
    /\ items = ExpandedItems
    /\ fetchQueries = [i \in DOMAIN ExpandedItems |->
                          IF ExpandedItems[i].children_fetched THEN 1 ELSE 0]
    /\ advanced_view = FALSE
    /\ probeQueries = 0
    /\ resets = 0
    /\ treeRet = [op |-> "fetchMore",
                  index |-> CHOOSE i \in DOMAIN ExpandedItems : ExpandedItems[i].dn = SalesDN,
                  ret |-> "fetched"]
    /\ Started /\ bk = NoCall /\ InitList

InitListOnly == InitListPane /\ InitActions

NextList ==
    \/ \E index \in ValidIndexes(items) : OnTreeItemClicked(index) /\ OnlyList
    \/ Sort /\ OnlyList
    \/ \E row \in -1..Len(_data) : OnTableItemClicked(row) /\ OnlyList

SpecList == InitListOnly /\ [][NextList]_vars

\* The selection in the list pane: container clicks, row clicks and the
\* context menu of a row.
NextSelection ==
    \/ \E index \in ValidIndexes(items) : OnTreeItemClicked(index) /\ OnlyList
    \/ \E row \in -1..Len(_data) : OnTableItemClicked(row) /\ OnlyList
    \/ \E row \in 0..(Len(_data) - 1) : OnListContextMenu(row) /\ OnlyList

SpecSelection == InitListOnly /\ [][NextSelection]_vars

\* The mutation entry points, driven from the list pane.
\* CN=Users is listed; a row may have been clicked.
InitActionsPane ==
    /\ items = ExpandedItems
    /\ fetchQueries = [i \in DOMAIN ExpandedItems |->
                          IF ExpandedItems[i].children_fetched THEN 1 ELSE 0]
    /\ advanced_view = FALSE
    /\ probeQueries = 0
    /\ resets = 0
    /\ treeRet = [op |-> "fetchMore",
                  index |-> CHOOSE i \in DOMAIN ExpandedItems : ExpandedItems[i].dn = SalesDN,
                  ret |-> "fetched"]
    /\ Started /\ bk = NoCall
    /\ _data = setData(get_all_objects_in_dn(UsersDN, 0).objects)
    /\ currentContainerDN = UsersDN
    /\ \/ current_selected_dn = "None" /\ listOp = [op |-> "click",
                                                     index |-> CHOOSE i \in DOMAIN ExpandedItems :
                                                                  ExpandedItems[i].dn = UsersDN,
                                                     dn |-> UsersDN,
                                                     failPage |-> 0,
                                                     out |-> get_all_objects_in_dn(UsersDN, 0)]
       \/ current_selected_dn = BobDN /\ listOp = [op |-> "table click", row |-> 0]
    /\ InitActions

NextActions ==
    \/ OpenComputerProperties /\ OnlyActions
    \/ SetPrimaryGroup /\ OnlyActions
    \/ OnNewUserActionTriggered /\ OnlyActions
    \/ OnCopyUserActionTriggered /\ OnlyActions
    \/ Placeholder /\ OnlyActions

SpecActions == InitActionsPane /\ [][NextActions]_vars

\* The user properties dialog, opened from the list pane.
NextUserDialog ==
    \/ OpenUserProperties /\ OnlyUserDialog
    \/ OnUserRemoveFromGroup /\ OnlyUserDialog
    \/ UserPlaceholder /\ OnlyUserDialog

SpecUserDialog == InitActionsPane /\ [][NextUserDialog]_vars

\* main(), lines 114-118: the window is built around the connection that
\* get_authenticated_connection returned, and the event loop starts.
OpenWindow ==
    /\ pc = "window"
    /\ pc' = "exec"
    /\ \E rootOk \in BOOLEAN :
          /\ items' = ADTreeModel(FALSE, rootOk).items
          /\ fetchQueries' = [i \in DOMAIN ADTreeModel(FALSE, rootOk).items |-> 0]
    /\ advanced_view' = FALSE
    /\ probeQueries' = 0
    /\ resets' = 0
    /\ treeRet' = [op |-> "init", index |-> InvalidIndex, ret |-> "None"]
    /\ UNCHANGED <<ticket, lastConn, connCalls, prompts, kinitCalls, lastKinit, auth_dialog, fatalErrors>>
    /\ UNCHANGED <<bk, listVars, actVars, dlgVars>>

\* A whole run: start-up, then the interactive session on the connection,
\* with the list queries of the root item.
NextSession ==
    \/ Connect /\ OnlyStartup
    \/ Dialog /\ OnlyStartup
    \/ Kinit /\ OnlyStartup
    \/ OpenWindow
    \/ pc = "exec" /\ \E index \in ValidIndexes(items) : OnTreeItemClicked(index) /\ OnlyList

SpecSession == InitStart /\ [][NextSession]_vars

----------------------------------------------------------------------------
(* Claims about the tree model (Spec) *)

\* C1: for every tree item, the children query (get_expandable_children) is
\* issued at most once; a fetchMore on an item whose children were already
\* fetched issues no query and adds no children (within one model generation).
C1_FetchedAtMostOnce ==
    /\ [](\A i \in DOMAIN items : fetchQueries[i] <= 1)
    /\ [][\A i \in DOMAIN items :
            (items[i].children_fetched /\ resets' = resets)
                => /\ i \in DOMAIN items'
                   /\ items'[i].children = items[i].children
                   /\ fetchQueries'[i] = fetchQueries[i]]_vars

\* A second fetchMore on an item that was fetched before has returned.
C1_Witness ==
    /\ treeRet.op = "fetchMore"
    /\ treeRet.ret = "returned early"
    /\ items[treeRet.index].children_fetched
    /\ fetchQueries[treeRet.index] = 1

\* What hasChildren answers on a valid index whose flag is set (no backend fallback).
HasChildrenAnswer(its, adv, i) == hasChildren(its, adv, i, FALSE).ret

\* The item's flag was resolved by a directory query: fetchMore created the item
\* and set the flag from has_expandable_children.
Resolved(its, i) == its[i].parent # RootItem /\ its[i].has_sub_containers # "None"

\* C2 as stated: once an item's has-children answer was resolved by a directory
\* query, hasChildren keeps returning the same value until a model reset.
C2_Original ==
    [][resets' = resets =>
        \A i \in ValidIndexes(items) :
            Resolved(items, i) =>
                HasChildrenAnswer(items', advanced_view', i)
                    = HasChildrenAnswer(items, advanced_view, i)]_vars

\* C2 amended: within one model generation an item's stored flag never changes,
\* and hasChildren changes its answer only in the step that fetches the item's
\* own children, and then only from True to False (the fetch produced no child).
C2_FlagAuthoritativeUntilFetched ==
    [][resets' = resets =>
        \A i \in ValidIndexes(items) :
            /\ items'[i].has_sub_containers = items[i].has_sub_containers
            /\ (HasChildrenAnswer(items', advanced_view', i)
                    # HasChildrenAnswer(items, advanced_view, i)
                => /\ ~items[i].children_fetched /\ items'[i].children_fetched
                   /\ items[i].has_sub_containers = "True"
                   /\ HasChildrenAnswer(items, advanced_view, i)
                   /\ items'[i].children = <<>>)]_vars

\* hasChildren has answered False for an item whose resolved flag is True.
C2_Witness ==
    /\ treeRet.op = "hasChildren"
    /\ treeRet.index \in ValidIndexes(items)
    /\ Resolved(items, treeRet.index)
    /\ items[treeRet.index].has_sub_containers = "True"
    /\ items[treeRet.index].children_fetched
    /\ treeRet.ret = "False"


----------------------------------------------------------------------------
(* Claims about the backend functions (SpecBackend) *)

\* The entry carries a class of the allow-list.
HasBranchClass(entry) ==
    /\ "objectClass" \in DOMAIN entry.attrs
    /\ \E i \in DOMAIN entry.attrs.objectClass : entry.attrs.objectClass[i] \in TREE_BRANCH_CLASSES

\* The entry is flagged showInAdvancedViewOnly = true, in any letter case.
FlaggedAdvancedOnly(entry) ==
    /\ "showInAdvancedViewOnly" \in DOMAIN entry.attrs
    /\ entry.attrs.showInAdvancedViewOnly \in {<<"TRUE">>, <<"True">>, <<"true">>}

\* C3: _is_tree_branch classifies an entry as expandable iff its objectClass
\* values meet TREE_BRANCH_CLASSES and it is not flagged showInAdvancedViewOnly
\* (the flag counting in non-advanced mode only); every other entry, also one
\* without objectClass or one that is no dict, is a leaf.
C3_BranchClassification ==
    bk.fn = "_is_tree_branch" =>
        (bk.ret <=> /\ bk.entry.isdict
                    /\ HasBranchClass(bk.entry)
                    /\ ~(FlaggedAdvancedOnly(bk.entry) /\ ~bk.adv))

\* A flagged entry of a branch class was classified in advanced mode: expandable.
C3_Witness ==
    /\ bk.fn = "_is_tree_branch"
    /\ bk.adv
    /\ bk.entry.isdict
    /\ FlaggedAdvancedOnly(bk.entry)
    /\ HasBranchClass(bk.entry)
    /\ bk.ret

\* The spellings of well-known non-expandable DNs among the DNs called with.
WellKnownDNs == {UsersDN, UsersDNUpper}

\* C4 as stated: for a well-known non-expandable DN, in non-advanced mode, both
\* get_expandable_children and has_expandable_children issue no directory query.
C4_Original ==
    (/\ bk.fn \in {"has_expandable_children", "get_expandable_children"}
     /\ ~bk.adv
     /\ bk.dn \in WellKnownDNs)
        => bk.out.queries = 0

\* C4 amended: in non-advanced mode has_expandable_children returns False for a
\* well-known DN without a query, also when get_expandable_children probes a
\* child with it; get_expandable_children itself does not short-circuit: its
\* queries are its own paged search, at least one request, plus one per probed
\* child that is not well-known.
C4_ProbeShortCircuits ==
    /\ (bk.fn = "has_expandable_children" /\ ~bk.adv /\ bk.dn \in WellKnownDNs)
          => (bk.out.queries = 0 /\ ~bk.out.ret)
    /\ bk.fn = "get_expandable_children"
          => /\ bk.out.searches >= 1
             /\ bk.out.queries = bk.out.searches
                   + Cardinality({i \in DOMAIN bk.out.probed :
                                     bk.adv \/ bk.out.probed[i] \notin WellKnownDNs})
             /\ \A i \in DOMAIN bk.out.children :
                   (~bk.adv /\ bk.out.children[i].dn \in WellKnownDNs)
                       => ~bk.out.children[i].has_sub_containers

\* The probe was called in non-advanced mode with a well-known DN in a spelling
\* other than the stored lower-case one, and issued no query.
C4_Witness ==
    /\ bk.fn = "has_expandable_children"
    /\ ~bk.adv
    /\ bk.dn = UsersDNUpper
    /\ bk.out.queries = 0

KindClasses(item) == Range(GetAttr(item, "objectClass"))

\* C5: the kind is derived first-match-wins in the order groupPolicyContainer,
\* group, computer, user, organizationalUnit, container, last class label; an
\* entry with both user and computer (and neither group nor groupPolicyContainer)
\* is a "Computer".
C5_KindOrder ==
    (bk.fn = "_get_object_type" /\ KindClasses(bk.item) # {}) =>
        LET cs == KindClasses(bk.item)
            oc == bk.item.objectClass
            gpo == "groupPolicyContainer" \in cs
            grp == ~gpo /\ "group" \in cs
            cmp == ~gpo /\ ~grp /\ "computer" \in cs
            usr == ~gpo /\ ~grp /\ ~cmp /\ "user" \in cs
            ou == ~gpo /\ ~grp /\ ~cmp /\ ~usr /\ "organizationalUnit" \in cs
            cnt == ~gpo /\ ~grp /\ ~cmp /\ ~usr /\ ~ou /\ "container" \in cs
        IN /\ gpo <=> bk.ret = "Group Policy Object"
           /\ grp <=> bk.ret = "Security Group"
           /\ cmp <=> bk.ret = "Computer"
           /\ usr <=> bk.ret \in {"User", "Disabled User"}
           /\ ou <=> bk.ret = "Organizational Unit"
           /\ cnt <=> bk.ret = "Container"
           /\ ~(gpo \/ grp \/ cmp \/ usr \/ ou \/ cnt) => bk.ret = oc[Len(oc)]
           /\ ({"user", "computer"} \subseteq cs /\ cs \cap {"group", "groupPolicyContainer"} = {})
                 => bk.ret = "Computer"

\* An entry carrying user and computer, with the disabled bit set, was classified.
C5_Witness ==
    /\ bk.fn = "_get_object_type"
    /\ {"user", "computer"} \subseteq KindClasses(bk.item)
    /\ "userAccountControl" \in DOMAIN bk.item
    /\ bk.item.userAccountControl = <<5, 1, 4>>
    /\ bk.ret = "Computer"

RECURSIVE SumLen(_)
SumLen(pages) == IF pages = <<>> THEN 0 ELSE Len(Head(pages)) + SumLen(Tail(pages))

\* The requests a search over these pages takes when none fails.
RequestsNeeded(pages) == IF pages = <<>> THEN 1 ELSE Len(pages)

\* C6: when the directory answers in N pages and no request fails,
\* get_paged_results returns the concatenation of pages 1..N, in order, its
\* length the sum of the page lengths.
C6_PaginationRoundTrip ==
    (/\ bk.fn = "get_paged_results"
     /\ (bk.srv.failAt = 0 \/ bk.srv.failAt > RequestsNeeded(bk.srv.pages)))
        => /\ bk.out.results = Flatten(bk.srv.pages)
           /\ Len(bk.out.results) = SumLen(bk.srv.pages)
           /\ bk.out.errors = 0

\* Three pages, the first two different and non-empty, were all received.
C6_Witness ==
    /\ bk.fn = "get_paged_results"
    /\ bk.srv.failAt = 0
    /\ Len(bk.srv.pages) = 3
    /\ bk.srv.pages[1] = <<"e1", "e2">>
    /\ bk.srv.pages[2] = <<"e2", "e1">>
    /\ bk.out.results = <<"e1", "e2", "e2", "e1">> \o bk.srv.pages[3]

\* C7: when the request for page k fails, get_paged_results returns exactly the
\* concatenation of pages 1..k-1 (empty for k = 1) and logs the error once.
C7_PartialResultOnError ==
    (/\ bk.fn = "get_paged_results"
     /\ bk.srv.failAt \in 1..RequestsNeeded(bk.srv.pages))
        => /\ bk.out.results = Flatten(SubSeq(bk.srv.pages, 1, bk.srv.failAt - 1))
           /\ bk.out.errors = 1

\* The request for page 3 failed after two non-empty pages had been received.
C7_Witness ==
    /\ bk.fn = "get_paged_results"
    /\ bk.srv.failAt = 3
    /\ Len(bk.srv.pages) = 3
    /\ bk.out.results = bk.srv.pages[1] \o bk.srv.pages[2]
    /\ bk.srv.pages[1] # <<>> /\ bk.srv.pages[2] # <<>> /\ bk.srv.pages[3] # <<>>


----------------------------------------------------------------------------
(* Claims about start-up (SpecStartup) *)

\* The last get_ldap_conn call found a ticket and obtained no connection:
\* discovery failed, or every discovered server refused the bind.
FailedWithTicket(c) ==
    /\ c.exc # "NotCalled"
    /\ c.hadTicket
    /\ (~c.dnsOk \/ c.conn = "None")

\* C8 as stated: in both failure cases get_ldap_conn signals an error to its
\* caller (raises) instead of returning a normal result.
C8_Original == FailedWithTicket(lastConn) => lastConn.exc # "None"

\* C9 as stated: after a connection failure with a valid ticket the start-up
\* flow never calls get_ldap_conn again.
C9_Original == [][FailedWithTicket(lastConn) => connCalls' = connCalls]_vars

\* The SRV record a contacted server came from.
RecordOf(c, server) == CHOOSE r \in Range(c.answers) : RStripDot(r.target) = server

KeyAtMost(r1, r2) ==
    r1.priority < r2.priority \/ (r1.priority = r2.priority /\ r1.weight <= r2.weight)

\* C10: get_ldap_conn contacts the discovered servers one at a time in ascending
\* (priority, weight) order, skipping none; it returns the session of the first
\* one whose bind succeeds, contacts no server after it, and goes on to the next
\* server after a refused bind.
C10_FirstSuccessInPriorityOrder ==
    (lastConn.exc = "None" /\ lastConn.hadTicket /\ lastConn.dnsOk) =>
        LET c == lastConn
            n == Len(c.contacted)
            discovered == {RStripDot(r.target) : r \in Range(c.answers)}
        IN /\ Range(c.contacted) \subseteq discovered
           /\ \A i, j \in 1..n : i < j =>
                 /\ c.contacted[i] # c.contacted[j]
                 /\ KeyAtMost(RecordOf(c, c.contacted[i]), RecordOf(c, c.contacted[j]))
           /\ \A s \in discovered \ Range(c.contacted) :
                 \A i \in 1..n : KeyAtMost(RecordOf(c, c.contacted[i]), RecordOf(c, s))
           /\ \A i \in 1..(n - 1) : c.contacted[i] \notin c.up
           /\ IF discovered \cap c.up # {}
              THEN /\ n >= 1
                   /\ c.contacted[n] \in c.up
                   /\ c.conn = c.contacted[n]
                   /\ c.server = c.contacted[n]
              ELSE /\ Range(c.contacted) = discovered
                   /\ c.conn = "None"

\* Three servers were discovered in an order other than the sorted one; the
\* first in (priority, weight) order refused, the second accepted and is the
\* session returned, the third was not contacted although it would accept.
C10_Witness ==
    /\ lastConn.exc = "None" /\ lastConn.hadTicket /\ lastConn.dnsOk
    /\ Len(lastConn.answers) = 3
    /\ lastConn.answers[1].target = "dc3.home.lucasit.com."
    /\ lastConn.contacted = <<"dc2.home.lucasit.com", "dc1.home.lucasit.com">>
    /\ lastConn.conn = "dc1.home.lucasit.com"
    /\ "dc3.home.lucasit.com" \in lastConn.up


----------------------------------------------------------------------------
(* C11 *)

----------------------------------------------------------------------------
(* C12 *)

C12_WitnessLister ==
    /\ "first" \in DOMAIN bk
    /\ bk.fn = "get_all_objects_in_dn"
    /\ bk.fault = NoFault /\ bk.firstFault = NoFault
    /\ Len(bk.out.objects) >= 2

----------------------------------------------------------------------------
(* C13 *)

\* The results the server delivered to a one-level search under dn before
\* the request numbered failPage failed (0: no request failed).
Delivered(dn, failPage) ==
    LET pages == Paginate(StubSearch(dn, ListAttrs), StubPageSize)
    IN IF ~StubExists(dn) THEN <<>>
       ELSE IF failPage = 0 THEN Flatten(pages)
       ELSE Flatten(SubSeq(pages, 1, failPage - 1))

HasListName(result) ==
    /\ result[2].isdict
    /\ \E k \in {"displayName", "ou", "dc", "cn"} : GetAttr(result[2].attrs, k) # <<>>

DNsOf(rows) == [i \in DOMAIN rows |-> rows[i].dn]

NamedDNs(results) ==
    LET named == SelectSeq(results, HasListName)
    IN [i \in DOMAIN named |-> named[i][1]]

\* C13: after a click on a tree item the rows of the list model are, in this
\* order, the entries the search delivered that carry a name attribute
\* (the others left out, the order of the rest kept); and the rows change
\* only by such a click or by a sort request for column 0, 1 or 2.
C13_ListKeepsSearchOrder ==
    /\ [][\A index \in ValidIndexes(items) :
            (listOp' # listOp /\ listOp'.op = "click" /\ listOp'.index = index)
                => DNsOf(_data') = NamedDNs(Delivered(items[index].dn, listOp'.failPage))]_vars
    /\ [][_data' # _data =>
            \/ listOp'.op = "click"
            \/ listOp'.op = "sort" /\ listOp'.column \in {0, 1, 2}]_vars
    /\ [](listOp.op = "click" =>
            DNsOf(_data) = NamedDNs(Delivered(listOp.dn, listOp.failPage)))

\* The forest root listed: its four named children in the server's order, the
\* search reference between them left out.
C13_Witness ==
    /\ listOp.op = "click" /\ listOp.dn = RootDN /\ listOp.failPage = 0
    /\ DNsOf(_data) = <<UsersDN, SalesDN, SystemDN, LabDN>>

----------------------------------------------------------------------------
(* C14 *)

\* The position of the row with this DN (rows have distinct DNs).
PosOf(rows, dn) == CHOOSE i \in DOMAIN rows : rows[i].dn = dn

\* The key the claim names for a column, before lower-casing.
ColumnText(column, row) ==
    IF column = 0 THEN row.name
    ELSE IF column = 1 THEN _get_object_type(row)
    ELSE GetText(row, "description")

SameKey(column, r1, r2) == Lower(ColumnText(column, r1)) = Lower(ColumnText(column, r2))

\* C14: a sort request for column 0, 1 or 2 leaves a permutation of the rows,
\* ordered by the lower-cased key of the column (descending when requested),
\* in which any two rows whose keys are equal ignoring case keep their
\* previous relative order, for either order; any other column leaves the
\* rows as they are.
C14_StableSort ==
    [][(listOp' # listOp /\ listOp'.op = "sort") =>
        LET column == listOp'.column
            desc == listOp'.order = "DescendingOrder"
        IN IF column \notin {0, 1, 2} THEN _data' = _data
           ELSE /\ Len(_data') = Len(_data)
                /\ Range(_data') = Range(_data)
                /\ \A i, j \in DOMAIN _data' :
                      i < j =>
                        LET ki == StrRank(Lower(ColumnText(column, _data'[i])))
                            kj == StrRank(Lower(ColumnText(column, _data'[j])))
                        IN IF desc THEN ki >= kj ELSE ki <= kj
                /\ \A i, j \in DOMAIN _data :
                      (i < j /\ SameKey(column, _data[i], _data[j])) =>
                        PosOf(_data', _data[i].dn) < PosOf(_data', _data[j].dn)]_vars

\* OU=East sorted by kind, descending: the two rows of kind User come first,
\* in the order they had, the Disabled User last.
C14_Witness ==
    /\ listOp.op = "sort" /\ listOp.column = 1 /\ listOp.order = "DescendingOrder"
    /\ DNsOf(_data) = <<ZedDN, Amy2DN, AmyDN>>

\* OU=East sorted by name, ascending: "amy" and "AMY" count as equal and keep
\* their order in front of "Zed".
C14_WitnessCase ==
    /\ listOp.op = "sort" /\ listOp.column = 0 /\ listOp.order = "AscendingOrder"
    /\ DNsOf(_data) = <<AmyDN, Amy2DN, ZedDN>>

----------------------------------------------------------------------------
(* C15 *)

\* The classes the kind derivation looks at.
KindRelevant == {"groupPolicyContainer", "group", "computer", "user",
                 "organizationalUnit", "container"}

OnlyUser(row) == Range(row.objectClass) \cap KindRelevant = {"user"}

\* Bit 0x0002 of the number written as these digits (no digits: 0).
DisabledBitSet(opt) == opt # <<>> /\ (ParseInt(opt[1]) \div 2) % 2 = 1

RowOf(rows, dn) == rows[PosOf(rows, dn)]

\* C15: a listed entry whose only kind-relevant class is user has the kind
\* "Disabled User" exactly when bit 0x0002 of its userAccountControl is set
\* (a missing attribute counting as 0) and "User" otherwise; flipping that bit
\* in the directory changes this row's kind and userAccountControl only: the
\* number of rows, the row's name, description, DN and classes, and every
\* other row are the same in the listing before and after.
C15_DisabledBitOnlyChangesKind ==
    (bk.fn = "get_all_objects_in_dn around a toggle") =>
        /\ Len(bk.after) = Len(bk.before)
        /\ \A j \in DOMAIN bk.before :
              IF bk.before[j].dn # bk.toggled THEN bk.after[j] = bk.before[j]
              ELSE /\ bk.after[j].dn = bk.before[j].dn
                   /\ bk.after[j].name = bk.before[j].name
                   /\ bk.after[j].objectClass = bk.before[j].objectClass
                   /\ GetText(bk.after[j], "description") = GetText(bk.before[j], "description")
                   /\ ("description" \in DOMAIN bk.after[j]) = ("description" \in DOMAIN bk.before[j])
                   /\ OnlyUser(bk.before[j]) =>
                        /\ _get_object_type(bk.before[j]) =
                              (IF DisabledBitSet(bk.uac) THEN "Disabled User" ELSE "User")
                        /\ _get_object_type(bk.after[j]) =
                              (IF DisabledBitSet(bk.uac) THEN "User" ELSE "Disabled User")

\* bob (userAccountControl 512) listed as User before and as Disabled User
\* after the flip, krbtgt's row untouched.
C15_Witness ==
    /\ bk.fn = "get_all_objects_in_dn around a toggle"
    /\ bk.toggled = BobDN
    /\ Len(bk.before) = 2
    /\ _get_object_type(RowOf(bk.before, BobDN)) = "User"
    /\ _get_object_type(RowOf(bk.after, BobDN)) = "Disabled User"
    /\ RowOf(bk.after, BobDN).userAccountControl = <<5, 1, 4>>

----------------------------------------------------------------------------
(* C16 *)

QueryFunctions ==
    {"get_expandable_children", "has_expandable_children", "get_all_objects_in_dn",
     "find_objects", "get_properties"}

\* The value call c handed back to its caller.
ReturnValue(c) ==
    CASE c.fn = "get_expandable_children" -> c.out.children
      [] c.fn \in {"get_all_objects_in_dn", "find_objects"} -> c.out.objects
      [] OTHER -> c.out.ret

\* The directory answered the first request of call c with an LDAPError.
FirstRequestFailed(c) ==
    CASE c.fn = "has_expandable_children" ->
             ~IsNonExpandable(c.dn, c.adv) /\ (c.failed \/ ~StubExists(c.dn))
      [] c.fn \in {"get_expandable_children", "get_all_objects_in_dn"} ->
             ~StubExists(c.dn) \/ c.fault.failPage = 1
      [] c.fn = "find_objects" ->
             ObjectClassFilter(c.object_type) # {}
             /\ (~StubExists(c.search_base) \/ c.failPage = 1)
      [] c.fn = "get_properties" -> c.failed \/ StubEntry(c.dn) = <<>>
      [] OTHER -> FALSE

\* What the function of call c returns when every request is answered and
\* the directory has nothing to report.
TrulyEmptyResult(c) ==
    CASE c.fn = "get_expandable_children" ->
             get_expandable_children(PoliciesDN, c.adv, NoFault).children
      [] c.fn = "has_expandable_children" -> has_expandable_children(PoliciesDN, c.adv, FALSE).ret
      [] c.fn = "get_all_objects_in_dn" -> get_all_objects_in_dn(PoliciesDN, 0).objects
      [] c.fn = "find_objects" ->
             find_objects(PoliciesDN, c.object_type, c.name, c.description, 0).objects
      [] c.fn = "get_properties" -> get_properties("group", BobDN, FALSE).ret

\* The NO_SUCH_OBJECT handler of has_expandable_children, which logs nothing.
SilentProbe(c) ==
    c.fn = "has_expandable_children" /\ ~StubExists(c.dn) /\ ~IsNonExpandable(c.dn, c.adv)

\* C16 as stated: no query function lets an LDAP error through; each logs the
\* error, and a query whose first request failed returns what a truly empty
\* result returns.
C16_Original ==
    (bk.fn \in QueryFunctions /\ "first" \notin DOMAIN bk) =>
        /\ ~bk.out.raised
        /\ FirstRequestFailed(bk) =>
              (bk.out.errors >= 1 /\ ReturnValue(bk) = TrulyEmptyResult(bk))

\* C16, amended: no query function lets an LDAP error through, and a query
\* whose first request failed returns what a truly empty result returns (an
\* empty list, False or None); the error is logged, except that
\* has_expandable_children returns False for a DN that does not exist
\* (NO_SUCH_OBJECT) without logging anything.
C16_NoLdapErrorPropagates ==
    (bk.fn \in QueryFunctions /\ "first" \notin DOMAIN bk) =>
        /\ ~bk.out.raised
        /\ FirstRequestFailed(bk) =>
              /\ ReturnValue(bk) = TrulyEmptyResult(bk)
              /\ IF SilentProbe(bk) THEN bk.out.errors = 0 ELSE bk.out.errors >= 1

\* The probe of OU=Sales, which has a branch child, fails: False is returned
\* and the error logged.
C16_Witness ==
    /\ bk.fn = "has_expandable_children" /\ bk.dn = SalesDN /\ bk.failed
    /\ bk.out.ret = FALSE /\ bk.out.errors = 1 /\ ~bk.out.raised
    /\ has_expandable_children(SalesDN, bk.adv, FALSE).ret = TRUE

\* The step just taken sent at least one write operation to the directory.
SentWrite(op) == "sent" \in DOMAIN op /\ op.sent # <<>>

\* C17: in any sequence of UI actions only the primary-group update
\* (update_object_attributes) sends a modify operation or changes the remote
\* directory; new user, copy user, delete, disable, apply changes and
\* add/remove group leave it unchanged, and create_user_samba and
\* copy_user_samba report success without writing.
C17_OnlyPrimaryGroupWrites ==
    [][ /\ (directory' # directory \/ SentWrite(uiOp')) => uiOp'.op = "set_primary_group"
        /\ (uiOp'.op \in {"new_user", "copy_user"} /\ uiOp'.ret # <<>>) =>
              /\ uiOp'.ret[1] = TRUE
              /\ uiOp'.sent = <<>>
              /\ directory' = directory
      ]_vars

\* After the primary group was changed to Domain Controllers, creating a user
\* reports success and the directory is as it was.
C17_Witness ==
    /\ uiOp.op = "new_user" /\ uiOp.ret = <<TRUE, "samba_backend.success.create_user">>
    /\ uiOp.sent = <<>>
    /\ directory = [primaryGroupID |-> "516", users |-> {BobDN, KrbtgtDN, AliceDN}]

\* C18: update_object_attributes returns (True, message) exactly when
\* modify_s succeeded and (False, error text) exactly when it raised an
\* LDAPError, and raises nothing itself; _set_primary_group reloads the entry
\* only on True, and on False the displayed entry is unchanged.
C18_BooleanPlusMessage ==
    [][ (uiOp'.op = "set_primary_group") =>
          IF uiOp'.called
          THEN LET m == uiOp'.sent[1]
               IN /\ Len(uiOp'.sent) = 1
                  /\ ~uiOp'.raised
                  /\ uiOp'.ret[1] = m.accepted
                  /\ m.accepted =>
                        /\ uiOp'.ret = <<TRUE, "Object updated successfully.">>
                        /\ directory'[m.attr] = m.value
                  /\ ~m.accepted =>
                        /\ uiOp'.ret = <<FALSE, "LDAPError">>
                        /\ directory' = directory
                  /\ uiOp'.reloaded = uiOp'.ret[1]
                  /\ ~uiOp'.ret[1] => shown' = shown
          ELSE shown' = shown /\ directory' = directory
      ]_vars

\* After one accepted change to Domain Controllers, a second change is
\* rejected: (False, error text), the directory and the dialog as before.
C18_Witness ==
    /\ uiOp.op = "set_primary_group" /\ uiOp.called
    /\ uiOp.ret = <<FALSE, "LDAPError">> /\ ~uiOp.reloaded
    /\ uiOp.sent[1].value # "516"
    /\ directory.primaryGroupID = "516"
    /\ shown.primary = DomainControllersDN

\* The DNs of the immediate children of a container.
ChildDNs(dn) == {StubChildren(dn)[i][1] : i \in DOMAIN StubChildren(dn)}

\* A click on a tree item was just handled.
Clicked(before, after) == after # before /\ after.op = "click"

\* C19 as stated: after a tree-item click the rows are the clicked
\* container's children of a fresh query, and when the fetch failed the list
\* is empty.
C19_Original ==
    listOp.op = "click" =>
        IF listOp.failPage = 0 /\ StubExists(listOp.dn)
        THEN DNsOf(_data) = NamedDNs(StubSearch(listOp.dn, ListAttrs))
        ELSE _data = <<>>

\* C19, amended: after a tree-item click every row of the list model is an
\* immediate child of the clicked container, taken from the query just made:
\* all its named children when every page was answered, the named children of
\* the pages received before the failed request otherwise, which is the
\* empty list only when the first request failed.  No row of the container
\* listed before survives unless it is a row of the new listing.
C19_RebuiltWholesale ==
    [][ Clicked(listOp, listOp') =>
          LET dn == listOp'.dn
              failPage == listOp'.failPage
          IN /\ currentContainerDN' = dn
             /\ \A i \in DOMAIN _data' : _data'[i].dn \in ChildDNs(dn)
             /\ \A i \in DOMAIN _data : _data[i] \in Range(_data') => _data[i].dn \in ChildDNs(dn)
             /\ DNsOf(_data') = NamedDNs(Delivered(dn, failPage))
             /\ (failPage = 0 /\ StubExists(dn)) =>
                    DNsOf(_data') = NamedDNs(StubSearch(dn, ListAttrs))
             /\ (failPage = 1 \/ ~StubExists(dn)) => _data' = <<>>
             /\ (failPage > 1 /\ StubExists(dn)) =>
                    \A j \in 1..Min(StubPageSize, Len(StubChildren(dn))) :
                        HasListName(StubSearch(dn, ListAttrs)[j]) =>
                            StubChildren(dn)[j][1] \in Range(DNsOf(_data'))
      ]_vars

\* The forest root is clicked and the second page of the search fails: rows
\* of the first page are shown, fewer than the root has named children.
C19_Witness ==
    /\ listOp.op = "click" /\ listOp.dn = RootDN /\ listOp.failPage = 2
    /\ _data # <<>> /\ Len(_data) < Len(NamedDNs(StubSearch(RootDN, ListAttrs)))
    /\ \A i \in DOMAIN _data : _data[i].dn \in ChildDNs(RootDN)

Loaded(op) == op.op \in {"open user properties", "open computer properties"}

\* C21 as stated: whenever the entry data a dialog shows (its group
\* membership rows, its primary group) changes by a UI operation other than
\* loading the entry, a modify operation for the change was sent to the
\* directory.
C21_Original ==
    [][ ((member_of_table' # member_of_table \/ shown' # shown) /\ ~Loaded(uiOp'))
            => SentWrite(uiOp') ]_vars

\* What the one-level search under dn for the tree attributes delivers when
\* request failPage fails (0: none does).
TreeDelivered(dn, failPage) ==
    LET pages == Paginate(StubSearch(dn, TreeAttrs), StubPageSize)
    IN IF ~StubExists(dn) THEN <<>>
       ELSE IF failPage = 0 THEN Flatten(pages)
       ELSE Flatten(SubSeq(pages, 1, failPage - 1))

\* The requests one paged search under dn sends.
TreeRequests(dn, failPage) ==
    LET pages == Paginate(StubSearch(dn, TreeAttrs), StubPageSize)
    IN IF ~StubExists(dn) \/ failPage = 1 THEN 1
       ELSE IF failPage = 0 THEN RequestsNeeded(pages)
       ELSE failPage

\* The delivered entries that are branches with a name attribute, in order.
BranchCandidates(dn, adv, failPage) ==
    LET IsCandidate(result) ==
            /\ result[2].isdict
            /\ _is_tree_branch(result[2], adv)
            /\ \E k \in {"ou", "dc", "cn"} : GetAttr(result[2].attrs, k) # <<>>
        chosen == SelectSeq(TreeDelivered(dn, failPage), IsCandidate)
    IN [i \in DOMAIN chosen |-> chosen[i][1]]

\* C22: get_expandable_children(dn) makes one paged one-level search under dn
\* (one request per page) and then one has_expandable_children probe for each
\* delivered entry that is a branch with a name attribute, in order, and for
\* no other entry; each returned child carries the answer of its own probe,
\* and an entry that is no branch is not returned.
C22_OneProbePerBranchChild ==
    bk.fn = "get_expandable_children" =>
        LET out == bk.out
            want == BranchCandidates(bk.dn, bk.adv, bk.fault.failPage)
        IN /\ out.searches = TreeRequests(bk.dn, bk.fault.failPage)
           /\ out.probed = want
           /\ DNsOf(out.children) = want
           /\ \A i \in DOMAIN out.children :
                 /\ out.children[i].has_sub_containers =
                        has_expandable_children(out.children[i].dn, bk.adv,
                                                out.children[i].dn \in bk.fault.failProbes).ret
                 /\ \E j \in DOMAIN StubChildren(bk.dn) :
                        /\ StubChildren(bk.dn)[j][1] = out.children[i].dn
                        /\ _is_tree_branch(StubChildren(bk.dn)[j][2], bk.adv)

\* The forest root in normal view, every request answered: its branch
\* children were probed once each, the other entries not, and the probes
\* gave different answers.
C22_Witness ==
    /\ bk.fn = "get_expandable_children" /\ bk.dn = RootDN /\ ~bk.adv
    /\ bk.fault = NoFault
    /\ Len(bk.out.probed) >= 2
    /\ Len(bk.out.probed) < Len(StubChildren(RootDN))
    /\ \E i, j \in DOMAIN bk.out.children :
          bk.out.children[i].has_sub_containers # bk.out.children[j].has_sub_containers

\* C23: every item that _setup_model or fetchMore created carries a set
\* has_sub_containers flag, so hasChildren on a valid index answers from the
\* flag or from the fetched child count and issues no directory query.
C23_ArrowPrePopulated ==
    /\ \A i \in ValidIndexes(items) :
          /\ items[i].has_sub_containers \in {"True", "False"}
          /\ \A probeFailed \in BOOLEAN :
                LET r == hasChildren(items, advanced_view, i, probeFailed)
                IN /\ r.queries = 0
                   /\ r.ret = IF items[i].children_fetched THEN child_count(items, i) > 0
                              ELSE items[i].has_sub_containers = "True"
    /\ probeQueries = 0

\* hasChildren was asked about an item that fetchMore created and whose
\* children are not fetched; it answered False from the flag, without a query.
C23_Witness ==
    /\ treeRet.op = "hasChildren" /\ treeRet.index \in ValidIndexes(items)
    /\ items[treeRet.index].parent # RootItem
    /\ ~items[treeRet.index].children_fetched
    /\ treeRet.ret = "False"
    /\ probeQueries = 0

\* The item is a known leaf: its flag says it has no branch child.
KnownLeaf(item) == item.has_sub_containers = "False"

\* C24: an item whose flag is False never has its children fetched:
\* canFetchMore answers False, fetchMore sends no query and leaves the item
\* as it is.  Within one model generation an item changes only by going from
\* flagged-True-and-not-fetched to fetched, and a fetched item stays fetched
\* with the children it has.
C24_LazyLoadingStates ==
    /\ [](\A i \in ValidIndexes(items) :
            KnownLeaf(items[i]) =>
               /\ ~items[i].children_fetched
               /\ items[i].children = <<>>
               /\ fetchQueries[i] = 0
               /\ \A probeFailed \in BOOLEAN :
                     ~canFetchMore(items, advanced_view, i, probeFailed).ret)
    /\ [][resets' = resets =>
            \A i \in ValidIndexes(items) :
               /\ i \in ValidIndexes(items')
               /\ KnownLeaf(items[i]) =>
                     (items'[i] = items[i] /\ fetchQueries'[i] = fetchQueries[i])
               /\ items[i].children_fetched =>
                     (items'[i].children_fetched /\ items'[i] = items[i])
               /\ items'[i] # items[i] =>
                     /\ items[i].has_sub_containers = "True"
                     /\ ~items[i].children_fetched
                     /\ items'[i].children_fetched
                     /\ items'[i].has_sub_containers = items[i].has_sub_containers]_vars

\* fetchMore on an item that fetchMore created with the flag False has
\* returned at once: the item is not fetched and no query was made for it.
C24_Witness ==
    /\ treeRet.op = "fetchMore" /\ treeRet.ret = "returned early"
    /\ treeRet.index \in ValidIndexes(items)
    /\ KnownLeaf(items[treeRet.index])
    /\ ~items[treeRet.index].children_fetched
    /\ fetchQueries[treeRet.index] = 0

\* C25: without a ticket every connection attempt is followed by a prompt,
\* so after an empty-credential entry and after a kinit failure the user is
\* prompted again, however often that has happened.  The flow ends only with
\* a connection, with the dialog cancelled (exit status 0), or with an
\* unexpected error (exit status 1): an unexpected exception of the kinit
\* call, or the exception that get_ldap_conn's None result causes.
C25_EndsOnlyByConnectionCancelOrError ==
    /\ []((pc \in {"dialog", "kinit"}) => ~ticket)
    /\ []((~ticket /\ pc = "loop") => prompts = connCalls)
    /\ []((~ticket /\ pc = "dialog") => connCalls = prompts + 1)
    /\ [][pc = "dialog" => pc' \in {"exit0", "loop", "kinit"}]_vars
    /\ [][(pc = "dialog" /\ pc' = "loop") =>
            (kinitCalls' = kinitCalls /\ ~ticket' /\ fatalErrors' = fatalErrors)]_vars
    /\ [][(pc' # pc /\ pc' = "exit0") => (pc = "dialog" /\ fatalErrors' = fatalErrors)]_vars
    /\ [][(pc' # pc /\ pc' = "exit1") =>
            \/ pc = "kinit" /\ lastKinit' = "Exception"
            \/ pc = "loop" /\ ticket /\ lastConn'.exc = "None" /\ lastConn'.value = "None"]_vars
    /\ [][(pc' # pc /\ pc' = "window") => (pc = "loop" /\ lastConn'.conn # "None")]_vars

\* The third prompt is due, after one prompt that ended in a kinit failure
\* and one that did not reach kinit.
C25_Witness ==
    /\ pc = "dialog" /\ ~ticket
    /\ prompts = 2 /\ connCalls = 3
    /\ kinitCalls = 1 /\ lastKinit = "CalledProcessError"

\* C26: a fetchMore that sent the children query marks the item as fetched,
\* whatever the query produced; from then on, until a reset, canFetchMore of
\* the item is False, hasChildren is child_count > 0, and no further query is
\* sent for it, also when the fetch had failed and left the item childless.
C26_FetchedWhateverTheResult ==
    /\ [][\A i \in ValidIndexes(items) :
            (i \in DOMAIN fetchQueries' /\ fetchQueries'[i] > fetchQueries[i] /\ resets' = resets)
                => (items'[i].children_fetched /\ ~items[i].children_fetched)]_vars
    /\ [](\A i \in ValidIndexes(items) :
            /\ fetchQueries[i] >= 1 => items[i].children_fetched
            /\ items[i].children_fetched =>
                  \A probeFailed \in BOOLEAN :
                     /\ ~canFetchMore(items, advanced_view, i, probeFailed).ret
                     /\ hasChildren(items, advanced_view, i, probeFailed).ret
                            = (child_count(items, i) > 0)
                     /\ hasChildren(items, advanced_view, i, probeFailed).queries = 0)
    /\ [][\A i \in ValidIndexes(items) :
            (items[i].children_fetched /\ resets' = resets /\ treeRet'.op = "fetchMore"
             /\ treeRet'.index = i /\ treeRet' # treeRet)
                => (treeRet'.ret = "returned early" /\ items' = items
                    /\ fetchQueries' = fetchQueries)]_vars

\* OU=Sales was fetched and the query failed: the item is marked fetched and
\* has no child, though the directory has a branch child for it, and a later
\* fetchMore on it has returned early.
C26_Witness ==
    /\ treeRet.op = "fetchMore" /\ treeRet.ret = "returned early"
    /\ treeRet.index \in ValidIndexes(items)
    /\ LET item == items[treeRet.index]
       IN /\ item.dn = SalesDN
          /\ item.children_fetched /\ item.children = <<>>
          /\ fetchQueries[treeRet.index] = 1
          /\ get_expandable_children(SalesDN, advanced_view, NoFault).children # <<>>

\* C27 as stated: against the unchanged directory, in the same view mode and
\* with every request answered, has_expandable_children(dn) is True exactly
\* when get_expandable_children(dn) returns a non-empty list.
C27_Original ==
    (bk.fn = "get_expandable_children" /\ bk.fault = NoFault) =>
        (has_expandable_children(bk.dn, bk.adv, FALSE).ret <=> bk.out.children # <<>>)

\* C28: get_paged_results sends one request per page: the first with the
\* empty cookie, each later one with the cookie of the response just before
\* it, no cookie twice.  It stops with the first response that has no paging
\* control or an empty cookie, or with the first failed request: after N
\* requests when the directory answers in N pages and none fails, after k
\* requests when request k fails.
C28_OneRequestPerPage ==
    bk.fn = "get_paged_results" =>
        LET srv == bk.srv
            sent == bk.out.sent
            n == Len(sent)
            needed == RequestsNeeded(srv.pages)
            failed == srv.failAt \in 1..needed
        IN /\ n >= 1 /\ sent[1] = 0
           /\ \A k \in 2..n :
                 LET resp == ServerResponse(srv, sent[k - 1])
                 IN resp.hasCtrl /\ resp.cookie # 0 /\ sent[k] = resp.cookie
           /\ \A j, k \in 1..n : sent[j] = sent[k] => j = k
           /\ n = IF failed THEN srv.failAt ELSE needed
           /\ failed => bk.out.errors = 1
           /\ ~failed =>
                 LET last == ServerResponse(srv, sent[n])
                 IN /\ ~last.hasCtrl \/ last.cookie = 0
                    /\ bk.out.errors = 0

\* Three pages, every request answered, the last response without a paging
\* control: three requests, with the cookies 0, 1 and 2.
C28_Witness ==
    /\ bk.fn = "get_paged_results"
    /\ Len(bk.srv.pages) = 3 /\ bk.srv.failAt = 0 /\ bk.srv.dropCtrl
    /\ bk.out.sent = <<0, 1, 2>>

\* C29 as stated: whenever current_selected_dn is set it is the DN of a row
\* of the list model, and an entry chosen from a row's context menu works on
\* an object of the container now listed.
C29_Original ==
    /\ current_selected_dn # "None" => current_selected_dn \in Range(DNsOf(_data))
    /\ (listOp.op = "context menu" /\ listOp.target # "None") =>
            listOp.target \in Range(DNsOf(_data))

\* The last dialog was accepted with both fields filled in.
BothGiven(d) ==
    d.result = "Accepted" /\ d.credentials[1] # "" /\ d.credentials[2] # ""

\* The last dialog was accepted with a field left empty.
AnEmptyField(d) ==
    d.result = "Accepted" /\ (d.credentials[1] = "" \/ d.credentials[2] = "")

\* C30: kinit is invoked only from a dialog that was accepted with a
\* non-empty username and a non-empty password.  A dialog accepted with an
\* empty field shows the "cannot be empty" box and goes back to the loop, and
\* the loop's next step is a connection attempt, not kinit.  A cancelled
\* dialog shows the "Authentication Canceled" box and exits with status 0,
\* with no kinit invocation.
C30_KinitOnlyWithCredentials ==
    /\ [](pc = "kinit" => BothGiven(auth_dialog))
    /\ [][kinitCalls' # kinitCalls =>
            (pc = "kinit" /\ BothGiven(auth_dialog) /\ kinitCalls' = kinitCalls + 1)]_vars
    /\ [][(pc = "dialog" /\ BothGiven(auth_dialog')) =>
            (pc' = "kinit" /\ auth_dialog'.message = "None")]_vars
    /\ [][(pc = "dialog" /\ AnEmptyField(auth_dialog')) =>
            /\ pc' = "loop"
            /\ auth_dialog'.message = "Username and password cannot be empty."
            /\ kinitCalls' = kinitCalls]_vars
    /\ [][(pc = "dialog" /\ auth_dialog'.result = "Rejected") =>
            /\ pc' = "exit0"
            /\ auth_dialog'.message = "Authentication Canceled"
            /\ kinitCalls' = kinitCalls]_vars
    /\ [][(pc \in {"loop", "exit0"}) => kinitCalls' = kinitCalls]_vars
    /\ [](kinitCalls <= prompts)

\* kinit has run once, on the credentials of the second prompt; the first
\* prompt was accepted with an empty field and did not reach kinit.
C30_Witness ==
    /\ prompts = 2 /\ kinitCalls = 1 /\ lastKinit # "None"
    /\ BothGiven(auth_dialog)

====
